---- MODULE Spec2Model ----
(***************************************************************************)
(* Intent resolution and session-state reconciliation of the Life          *)
(* Organizer bot (src/bot.py, src/ai_categorizer.py,                       *)
(* src/notion_integration.py, src/habits.py).                              *)
(*                                                                         *)
(* Every handler of the bot is an operator that maps the machine state S   *)
(* (a record of the process dictionaries and of the remote store) to the   *)
(* SET of states the handler can end in: the outcomes of the external      *)
(* calls (classifier replies, store writes) are drawn where the code       *)
(* consumes them.  An action of the state machine is one update delivered  *)
(* by the transport: it picks one outcome and records, in ev, what the     *)
(* handler did (the calls it made and the replies it sent).                *)
(***************************************************************************)
EXTENDS Integers, Sequences, FiniteSets, TLC

\* ------------------------------------------------------------------ bounds
\* updates per user that pass the rate limiter inside one window
MaxEvents == 2
\* texts queued during one focus session
MaxBacklog == 1
\* days the ledger is followed for
MaxDay == 14
\* the ledger is followed while a user's XP stays within this total
MaxLedgerXp == 200
\* the largest XP total whose level is looked up
MaxProbeXp == 5100
\* the clock of the rate limiter is followed up to this second
MaxNow == 80
\* the largest number of pages in a store whose queries are compared
MaxStore == 2
\* the largest number of pages in a Habits database that is searched by name
MaxHabits == 2
\* the number of updates that arrive while others are still being handled
MaxOverlap == 2

\* --------------------------------------------------------------- strings
\* Texts are sequences of one-character strings, so that str.upper() and
\* str.lower() are computed and not assumed.
LowerAlpha == <<"a","b","c","d","e","f","g","h","i","j","k","l","m",
                "n","o","p","q","r","s","t","u","v","w","x","y","z">>
UpperAlpha == <<"A","B","C","D","E","F","G","H","I","J","K","L","M",
                "N","O","P","Q","R","S","T","U","V","W","X","Y","Z">>

\* str.upper() and str.lower() on one character: letters change case,
\* every other character stays
ToUpper == [c \in {LowerAlpha[i] : i \in DOMAIN LowerAlpha} |->
               UpperAlpha[CHOOSE i \in DOMAIN LowerAlpha : LowerAlpha[i] = c]]
ToLower == [c \in {UpperAlpha[i] : i \in DOMAIN UpperAlpha} |->
               LowerAlpha[CHOOSE i \in DOMAIN UpperAlpha : UpperAlpha[i] = c]]

UpperChar(c) == IF c \in DOMAIN ToUpper THEN ToUpper[c] ELSE c

LowerChar(c) == IF c \in DOMAIN ToLower THEN ToLower[c] ELSE c

Upper(t) == [i \in DOMAIN t |-> UpperChar(t[i])]
Lower(t) == [i \in DOMAIN t |-> LowerChar(t[i])]

\* t occurs in s as a contiguous run (Python's  t in s)
Contains(s, t) ==
    \E i \in 0..(Len(s) - Len(t)) : SubSeq(s, i + 1, i + Len(t)) = t

\* the utterances the users send
Texts == { <<"Y","E","S">>, <<"y","E","s">>, <<"D","o","n","e">>,
           <<"g","y","m">> }

\* bot.py:571  text.upper() in ["YES", ...]  (the two Arabic words are
\* caseless; they are written here by their Latin names)
CONFIRM_WORDS == { <<"Y","E","S">>, <<"NAAM">>, <<"EY">> }
\* bot.py:1140 text_lower in ["done", "finished", "complete", ...]
DONE_WORDS == { <<"d","o","n","e">>, <<"f","i","n","i","s","h","e","d">>,
                <<"c","o","m","p","l","e","t","e">>, <<"TAMM">>, <<"KHALAS">> }

\* ----------------------------------------------------------------- users
Users == {"u1"}

\* bot.py:52 ALLOWED_USER_IDS
ALLOWED_USER_IDS == {"u1", "u3"}

\* Telegram users the allow-list does not name
Strangers == {"u2"}

Everyone == ALLOWED_USER_IDS \cup Strangers

\* ----------------------------------------------------------------- state
VARIABLES
    items,            \* Life Areas database: sequence of pages, id = index
    habits,           \* Habits database: sequence of pages, id = index
    pending_deletes,  \* bot.py:38   {user_id: page_id}
    conv,             \* ConversationHandler state of focus_handler per user
    focus_tasks,      \* context.user_data["focus_tasks"] per user
    focus_sessions,   \* bot.py:1041 {user_id: page_id of the focused task}
    focus_pending,    \* bot.py:1042 {user_id: [texts]}
    user_xp,          \* bot.py:112  {user_id: {xp, last_action, streak}}
    request_history,  \* bot.py:55   {user_id: [timestamps]}
    now,              \* time.time(), in seconds
    today,            \* datetime.now().date(), as a day number
    passed,           \* per user, the times of the updates the limiter let through
    user_data,        \* context.user_data per user: active_items, active_page
    keyboard,         \* callback data of the buttons under the latest item list
    flight,           \* the handlers that are suspended at an await, oldest first
    audit,            \* what the handlers in flight have done so far, per user
    ev                \* what the handler of the last update did

vars == << items, habits, pending_deletes, conv, focus_tasks, focus_sessions,
           focus_pending, user_xp, request_history, now, today, passed,
           user_data, keyboard, flight, audit, ev >>

\* ------------------------------------------------------- program constants
RATE_LIMIT_WINDOW == 60
MAX_REQUESTS_PER_WINDOW == 20
XP_TASK_ADDED == 5
XP_TASK_COMPLETED == 15
XP_FOCUS_COMPLETED == 25

STATUS_ACTIVE == <<"A","c","t","i","v","e">>
STATUS_DONE == <<"D","o","n","e">>

\* notion_integration.py:188 the statuses that hide an item
INACTIVE_STATUSES == { <<"d","o","n","e">>,
                       <<"c","o","m","p","l","e","t","e","d">>,
                       <<"a","r","c","h","i","v","e","d">> }

\* ------------------------------------------------------ the machine state
\* Python dictionaries are functions on the set of their keys.
Pop(d, k) == [x \in DOMAIN d \ {k} |-> d[x]]
Put(d, k, v) == [x \in DOMAIN d \cup {k} |-> IF x = k THEN v ELSE d[x]]
Empty == [x \in {} |-> {}]

\* what a handler observed on its way: the gate's verdict, the classifier
\* replies, the active items it fetched, the matcher's answer
NoObs == [gate |-> "n/a", habit |-> "n/a", mgmt |-> "n/a", intent |-> "n/a",
          fetched |-> FALSE, active |-> <<>>, match |-> {},
          confidence |-> "n/a", matched |-> {}, level |-> 0, title |-> "n/a",
          new_priority |-> {}, habit_name |-> <<>>, discarded |-> {},
          raised |-> FALSE]

\* the state a handler starts from
Begin ==
    [items |-> items, habits |-> habits, pending |-> pending_deletes,
     conv |-> conv, focus_tasks |-> focus_tasks, sessions |-> focus_sessions,
     backlog |-> focus_pending, xp |-> user_xp, hist |-> request_history,
     data |-> user_data, keyboard |-> keyboard,
     calls |-> <<>>, replies |-> <<>>, obs |-> NoObs]

\* an external call the handler made: op, the id it concerns (0: none), and
\* whether it succeeded
Call(S, op, arg, ok) ==
    [S EXCEPT !.calls = Append(@, [op |-> op, arg |-> arg, ok |-> ok])]

\* update.message.reply_text / query.edit_message_text
Reply(S, tag) == [S EXCEPT !.replies = Append(@, tag)]

Observe(S, field, v) == [S EXCEPT !.obs[field] = v]

\* ------------------------------------------------ Item Store Adapter
\* notion_integration.py:47-54 the page add_to_life_areas creates
NewItem(category, priority) ==
    [status |-> STATUS_ACTIVE, priority |-> priority, category |-> category,
     archived |-> FALSE]

\* notion_integration.py:15-79: one remote write; the new page id or None
AddToLifeAreas(S, category, priority, ok) ==
    IF ok
    THEN Call([S EXCEPT !.items = Append(@, NewItem(category, priority))],
              "add_to_life_areas", Len(S.items) + 1, TRUE)
    ELSE Call(S, "add_to_life_areas", 0, FALSE)

\* notion_integration.py:82-118: one remote write into the Brain Dump inbox;
\* a failure is swallowed and None returned.  file is TRUE when a file
\* reference is attached.  The inbox is never read back by the bot.
AddToBrainDump(S, file, ok) ==
    Call(S, IF file THEN "add_to_brain_dump_with_file" ELSE "add_to_brain_dump",
         0, ok)

\* notion_integration.py:121-142
LogProgress(S) == Call(S, "log_progress", 0, TRUE)

\* notion_integration.py:177-178
StatusName(item) ==
    IF item.status = <<>> THEN <<"N","o"," ","S","t","a","t","u","s">>
    ELSE item.status

\* IsActiveStatus comparing the status name as it is spelled
IsActiveStatus_CaseSensitive(item) == StatusName(item) \notin INACTIVE_STATUSES

\* notion_integration.py:186-189
IsActiveStatus(item) == Lower(StatusName(item)) \notin INACTIVE_STATUSES

\* what databases/query returns: the pages that are not archived, in the
\* store's order
QueryResults(its) ==
    SelectSeq([i \in 1..Len(its) |-> i], LAMBDA i : ~its[i].archived)

\* notion_integration.py:149-196: ids of the active items; [] when the
\* query fails
GetActiveItems(its, ok) ==
    IF ok THEN SelectSeq(QueryResults(its), LAMBDA i : IsActiveStatus(its[i]))
    ELSE <<>>

\* notion_integration.py:274-296: the store's own filter, Category equals
\* and Status equals "Active"
GetItemsByCategory(its, category, ok) ==
    IF ok
    THEN SelectSeq(QueryResults(its),
                   LAMBDA i : its[i].category = category
                              /\ its[i].status = STATUS_ACTIVE)
    ELSE <<>>

\* str.split(): the maximal runs of characters other than the blank; cur is
\* the run being read
RECURSIVE SplitFrom(_, _, _)
SplitFrom(s, i, cur) ==
    IF i > Len(s) THEN (IF cur = <<>> THEN <<>> ELSE << cur >>)
    ELSE IF s[i] = " "
         THEN (IF cur = <<>> THEN <<>> ELSE << cur >>) \o SplitFrom(s, i + 1, <<>>)
         ELSE SplitFrom(s, i + 1, Append(cur, s[i]))

Split(s) == SplitFrom(s, 1, <<>>)

\* notion_integration.py:222
skip_words ==
    { <<"t","h","e">>, <<"a">>, <<"a","n">>, <<"m","y">>, <<"t","o">>,
      <<"c","h","a","n","g","e">>, <<"u","p","d","a","t","e">>,
      <<"s","e","t">>, <<"m","a","k","e">>, <<"m","a","r","k">>,
      <<"d","e","l","e","t","e">>, <<"r","e","m","o","v","e">> }

\* the store's filter {"title": {"contains": q}}; exact tells whether the
\* store compares letter case
TitleContains(its, q, exact) ==
    SelectSeq(QueryResults(its),
              LAMBDA i : IF exact THEN Contains(its[i].title, q)
                         ELSE Contains(Lower(its[i].title), Lower(q)))

\* SearchItems that goes from an empty first tier straight to the third
SearchItems_NoSecondTier(its, query, exact, failing) ==
    IF failing = 1 THEN <<>>
    ELSE LET first == TitleContains(its, query, exact)
         IN  IF first # <<>> THEN first
             ELSE IF failing = 3 THEN <<>>
             ELSE LET all_items ==
                          SelectSeq(QueryResults(its),
                                    LAMBDA i : its[i].status = STATUS_ACTIVE)
                      tokens == Split(Lower(query))
                  IN  SelectSeq(all_items,
                          LAMBDA i : \E k \in DOMAIN tokens :
                              /\ Len(tokens[k]) > 2
                              /\ Contains(Lower(its[i].title), tokens[k]))

\* notion_integration.py:199-271: failing is the request that raises (0:
\* none); every exception returns []
SearchItems(its, query, exact, failing) ==
    IF failing = 1 THEN <<>>
    ELSE LET first == TitleContains(its, query, exact)
             words == SelectSeq(Split(Lower(query)),
                                LAMBDA w : w \notin skip_words /\ Len(w) > 2)
         IN  IF first # <<>> THEN first
             ELSE IF words # <<>> /\ failing = 2 THEN <<>>
             ELSE IF words # <<>> /\ TitleContains(its, words[1], exact) # <<>>
                  THEN TitleContains(its, words[1], exact)
             ELSE IF failing = 3 THEN <<>>
             ELSE LET all_items ==
                          SelectSeq(QueryResults(its),
                                    LAMBDA i : its[i].status = STATUS_ACTIVE)
                      tokens == Split(Lower(query))
                  IN  SelectSeq(all_items,
                          LAMBDA i : \E k \in DOMAIN tokens :
                              /\ Len(tokens[k]) > 2
                              /\ Contains(Lower(its[i].title), tokens[k]))

\* notion_integration.py:429-454: one remote write; page id or None
UpdateItem(S, page_id, field, value, ok) ==
    IF ok
    THEN Call([S EXCEPT !.items[page_id][field] = value],
              "update_item", page_id, TRUE)
    ELSE Call(S, "update_item", page_id, FALSE)

\* DeleteItem that flips the archived flag of the page
DeleteItem_Toggle(S, page_id, ok) ==
    IF ok
    THEN Call([S EXCEPT !.items[page_id].archived = ~@],
              "delete_item", page_id, TRUE)
    ELSE Call(S, "delete_item", page_id, FALSE)

\* notion_integration.py:457-464: archive the page; True or False
DeleteItem(S, page_id, ok) ==
    IF ok
    THEN Call([S EXCEPT !.items[page_id].archived = TRUE],
              "delete_item", page_id, TRUE)
    ELSE Call(S, "delete_item", page_id, FALSE)

\* ------------------------------------------------ Gamification Ledger
\* AddXp without the reset: a gap of more than one day extends the streak
AddXp_NoReset(rec, amount) ==
    LET streak ==
            IF rec.last_action # {}
            THEN LET last_date == CHOOSE d \in rec.last_action : TRUE
                     days_diff == today - last_date
                 IN  IF days_diff >= 1 THEN rec.streak + 1
                     ELSE rec.streak
            ELSE 1
        base == rec.xp + amount
        xp == IF streak > 0 /\ streak % 7 = 0 THEN base + 50 ELSE base
    IN  [xp |-> xp, last_action |-> {today}, streak |-> streak]

\* AddXp with the bonus paid on every call once the streak has reached 7
AddXp_BonusFromSeven(rec, amount) ==
    LET streak ==
            IF rec.last_action # {}
            THEN LET last_date == CHOOSE d \in rec.last_action : TRUE
                     days_diff == today - last_date
                 IN  IF days_diff = 1 THEN rec.streak + 1
                     ELSE IF days_diff > 1 THEN 1
                     ELSE rec.streak
            ELSE 1
        base == rec.xp + amount
        xp == IF streak >= 7 THEN base + 50 ELSE base
    IN  [xp |-> xp, last_action |-> {today}, streak |-> streak]

\* bot.py:144-173
AddXp(rec, amount) ==
    LET streak ==
            IF rec.last_action # {}
            THEN LET last_date == CHOOSE d \in rec.last_action : TRUE
                     days_diff == today - last_date
                 IN  IF days_diff = 1 THEN rec.streak + 1
                     ELSE IF days_diff > 1 THEN 1
                     ELSE rec.streak
            ELSE 1
        base == rec.xp + amount
        xp == IF streak > 0 /\ streak % 7 = 0 THEN base + 50 ELSE base
    IN  [xp |-> xp, last_action |-> {today}, streak |-> streak]

\* bot.py:121-130: the thresholds and the titles of the levels
LEVELS ==
    << [threshold |-> 0, name |-> "Seedling"],
       [threshold |-> 50, name |-> "Sprout"],
       [threshold |-> 150, name |-> "Sapling"],
       [threshold |-> 350, name |-> "Tree"],
       [threshold |-> 600, name |-> "Mountain"],
       [threshold |-> 1000, name |-> "Star"],
       [threshold |-> 2000, name |-> "Superstar"],
       [threshold |-> 5000, name |-> "Legend"] >>

RECURSIVE LevelLoop(_, _, _)
\* bot.py:137-140: the loop over LEVELS from entry i on; acc is (level, title)
LevelLoop(xp, i, acc) ==
    IF i > Len(LEVELS) THEN acc
    ELSE LevelLoop(xp, i + 1,
                   IF xp >= LEVELS[i].threshold
                   THEN [level |-> i, title |-> LEVELS[i].name]
                   ELSE acc)

\* GetLevel with a strict comparison against the threshold
GetLevel_Strict(xp) ==
    LET above == { i \in DOMAIN LEVELS : xp > LEVELS[i].threshold }
    IN  IF above = {} THEN [level |-> 0, title |-> LEVELS[1].name]
        ELSE LET top == CHOOSE i \in above : \A j \in above : j <= i
             IN  [level |-> top, title |-> LEVELS[top].name]

\* bot.py:133-141
GetLevel(xp) == LevelLoop(xp, 1, [level |-> 0, title |-> LEVELS[1].name])

\* bot.py:310-353: /stats shows the level of the user's XP
StatsCommand(S, u) ==
    LET lt == GetLevel(S.xp[u].xp)
    IN  { Reply(Observe(Observe(S, "level", lt.level), "title", lt.title),
                "your_stats") }

\* bot.py:202-222: /help only replies
HelpCommand(S, u) == { Reply(S, "help") }

\* a handler's call of add_xp(user_id, amount, reason)
AwardXp(S, u, amount) ==
    Call([S EXCEPT !.xp[u] = AddXp(@, amount)], "add_xp", amount, TRUE)

\* ------------------------------------------------ Classification Adapter
PRIORITIES == {"High", "Medium", "Low"}

\* The management classifier's replies.  kind: "error" (transport error or
\* timeout), "non200", "nonjson", or "json": a JSON object, whose intent
\* field is one of the five intents, another word ("rename"), or missing
\* (dict.get then yields None, written "None").
MgmtJson(intent, new_priority, category) ==
    [kind |-> "json", intent |-> intent, new_priority |-> new_priority,
     category |-> category]

MgmtReplies ==
    { MgmtJson(i, {}, {}) : i \in {"delete", "complete", "none", "rename", "None"} }
    \cup { MgmtJson("update_priority", p, {}) : p \in {{}, {"High"}} }
    \cup { MgmtJson("query", {}, c) : c \in {{}, {"Health"}} }
    \cup { [kind |-> k, intent |-> "n/a", new_priority |-> {}, category |-> {}]
           : k \in {"error", "non200", "nonjson"} }

\* ai_categorizer.py:68-115: the parsed JSON object as it is, and
\* {"intent": "none"} on every failure
ParseManagementIntent(r) ==
    IF r.kind = "json"
    THEN [intent |-> r.intent, new_priority |-> r.new_priority,
          category |-> r.category]
    ELSE [intent |-> "none", new_priority |-> {}, category |-> {}]

\* The habit classifier's replies.
HabitNames == { <<>>, <<"g","y","m">> }

HabitReplies ==
    { [kind |-> k, intent |-> "none", habit_name |-> <<>>, xp_reward |-> 25]
      : k \in {"json", "error"} }
    \cup { [kind |-> "json", intent |-> "create_habit",
            habit_name |-> <<"G","y","m">>, xp_reward |-> x] : x \in {25, -30} }
    \cup { [kind |-> "json", intent |-> "complete_habit", habit_name |-> n,
            xp_reward |-> 25] : n \in HabitNames }

\* parse_habit_intent (imported at bot.py:26): one of create_habit,
\* complete_habit, none with the habit's fields; a failed classification
\* is {intent: none}
ParseHabitIntent(r) ==
    IF r.kind = "json"
    THEN [intent |-> r.intent, habit_name |-> r.habit_name,
          xp_reward |-> r.xp_reward]
    ELSE [intent |-> "none", habit_name |-> <<>>, xp_reward |-> 25]

\* The matcher's replies for n listed tasks: a failure, or a JSON object
\* with a task number (0: no match; n + 1: out of range) and a confidence.
MatchReplies(n) ==
    { [kind |-> "error", task_number |-> 0, confidence |-> "low"] }
    \cup { [kind |-> "json", task_number |-> k, confidence |-> "low"]
           : k \in 0..(n + 1) }
    \cup { [kind |-> "json", task_number |-> k, confidence |-> "high"]
           : k \in 1..n }

\* AiMatchTask with a best-effort guess: a task number that names no listed
\* task falls back to the first one
AiMatchTask_Guess(tasks, r) ==
    IF tasks = <<>> \/ r.kind # "json" THEN {}
    ELSE IF r.task_number > 0 /\ r.task_number \in DOMAIN tasks
         THEN { tasks[r.task_number] }
         ELSE { tasks[1] }

\* ai_categorizer.py:118-197: the task the reply names, or None
AiMatchTask(tasks, r) ==
    IF tasks = <<>> \/ r.kind # "json" THEN {}
    ELSE IF r.task_number > 0 /\ r.task_number \in DOMAIN tasks
         THEN { tasks[r.task_number] }
         ELSE {}

\* The categorizer's replies: "json" is a complete object, "partial" a JSON
\* object without the category field, "error" any failure of the call.
CatReplies ==
    { [kind |-> "json", category |-> "Health", priority |-> "High"] }
    \cup { [kind |-> k, category |-> "n/a", priority |-> "n/a"]
           : k \in {"error", "partial"} }

\* ai_categorizer.py:200-272: the parsed object as it is; the fallback
\* record on every exception
CategorizeMessage(r) ==
    IF r.kind = "error"
    THEN [complete |-> TRUE, category |-> "Ideas", priority |-> "Low"]
    ELSE [complete |-> r.kind = "json", category |-> r.category,
          priority |-> r.priority]

\* ------------------------------------------------ habits
\* habits.py:67-107: the pages whose Active box is ticked; [] on failure
GetHabits(hs, ok) ==
    IF ok THEN SelectSeq([i \in 1..Len(hs) |-> i], LAMBDA i : hs[i].active)
    ELSE <<>>

\* GetHabitByName that only accepts a habit whose name contains the query
GetHabitByName_OneDirection(hs, name_query, ok) ==
    LET found == SelectSeq(GetHabits(hs, ok),
                           LAMBDA i : Contains(Lower(hs[i].name), Lower(name_query)))
    IN  IF found = <<>> THEN {} ELSE { Head(found) }

\* habits.py:125-136: the first habit whose lowered name contains the
\* lowered query or is contained in it; None when there is none
GetHabitByName(hs, name_query, ok) ==
    LET found == SelectSeq(GetHabits(hs, ok),
                           LAMBDA i : Contains(Lower(hs[i].name), Lower(name_query))
                                      \/ Contains(Lower(name_query), Lower(hs[i].name)))
    IN  IF found = <<>> THEN {} ELSE { Head(found) }

\* bot.py:655-686
HandleHabitCreate(S, u, h) ==
    { IF ok
      THEN Reply(Call([S EXCEPT !.habits =
                          Append(@, [name |-> h.habit_name, xp |-> h.xp_reward,
                                     active |-> TRUE, last_completed |-> {}])],
                      "create_habit", Len(S.habits) + 1, TRUE),
                 "habit_created")
      ELSE Reply(Call(S, "create_habit", 0, FALSE), "habit_create_failed")
      : ok \in BOOLEAN }

\* bot.py:689-731 with habits.py:109-122 (complete_habit)
HandleHabitComplete(S, u, h) ==
    IF h.habit_name = <<>> THEN { Reply(S, "which_habit") }
    ELSE UNION {
        LET habit == GetHabitByName(S.habits, h.habit_name, fetch)
            S1 == Call(Observe(S, "habit_name", h.habit_name), "get_habits", 0, fetch)
        IN  IF habit = {} THEN { Reply(S1, "habit_not_found") }
            ELSE LET habit_id == CHOOSE i \in habit : TRUE
                 IN  { IF ok
                       THEN Reply(
                              AwardXp(
                                LogProgress(
                                  Call([S1 EXCEPT !.habits[habit_id].last_completed = {today}],
                                       "complete_habit", habit_id, TRUE)),
                                u, S.habits[habit_id].xp),
                              "habit_done")
                       ELSE Reply(Call(S1, "complete_habit", habit_id, FALSE),
                                  "habit_complete_failed")
                       : ok \in BOOLEAN }
        : fetch \in BOOLEAN }

\* ------------------------------------------------ Intent Resolver
\* ManageMatched that writes the priority Medium when the classification
\* supplied none
ManageMatched_DefaultPriority(S, u, intent, page_id) ==
    CASE intent.intent = "delete" ->
            { Reply([S EXCEPT !.pending = Put(@, u, page_id)], "confirm_delete") }
      [] intent.intent = "complete" ->
            { IF ok
              THEN Reply(AwardXp(LogProgress(
                            UpdateItem(S, page_id, "status", STATUS_DONE, TRUE)),
                            u, 25),
                         "marked_done")
              ELSE Reply(UpdateItem(S, page_id, "status", STATUS_DONE, FALSE),
                         "update_failed")
              : ok \in BOOLEAN }
      [] intent.intent = "update_priority" ->
            LET T == Observe(S, "new_priority", intent.new_priority)
                p == IF intent.new_priority = {} THEN "Medium"
                     ELSE CHOOSE q \in intent.new_priority : TRUE
            IN  { IF ok
                  THEN Reply(UpdateItem(T, page_id, "priority", p, TRUE),
                             "priority_updated")
                  ELSE Reply(UpdateItem(T, page_id, "priority", p, FALSE),
                             "update_priority_failed")
                  : ok \in BOOLEAN }
      [] OTHER -> { S }

\* bot.py:788-827: the action on the matched item
ManageMatched(S, u, intent, page_id) ==
    CASE intent.intent = "delete" ->
            { Reply([S EXCEPT !.pending = Put(@, u, page_id)], "confirm_delete") }
      [] intent.intent = "complete" ->
            { IF ok
              THEN Reply(AwardXp(LogProgress(
                            UpdateItem(S, page_id, "status", STATUS_DONE, TRUE)),
                            u, 25),
                         "marked_done")
              ELSE Reply(UpdateItem(S, page_id, "status", STATUS_DONE, FALSE),
                         "update_failed")
              : ok \in BOOLEAN }
      [] intent.intent = "update_priority" ->
            LET T == Observe(S, "new_priority", intent.new_priority)
            IN  IF intent.new_priority = {}
                THEN { Reply(T, "update_priority_failed") }
                ELSE { IF ok
                       THEN Reply(UpdateItem(T, page_id, "priority",
                                      CHOOSE p \in intent.new_priority : TRUE, TRUE),
                                  "priority_updated")
                       ELSE Reply(UpdateItem(T, page_id, "priority",
                                      CHOOSE p \in intent.new_priority : TRUE, FALSE),
                                  "update_priority_failed")
                       : ok \in BOOLEAN }
      [] OTHER -> { S }

\* bot.py:741-763: the query intent lists and writes nothing
HandleQuery(S, intent) ==
    { LET listed == IF intent.category # {}
                    THEN GetItemsByCategory(S.items,
                             CHOOSE c \in intent.category : TRUE, fetch)
                    ELSE GetActiveItems(S.items, fetch)
          S1 == Call(S, IF intent.category # {} THEN "get_items_by_category"
                        ELSE "get_active_items", 0, fetch)
      IN  Reply(S1, IF listed = <<>> THEN "no_active_items" ELSE "item_list")
      : fetch \in BOOLEAN }

\* HandleManagementCommand without the early return on an empty list
HandleManagementCommand_NoEmptyCheck(S, u, intent) ==
    IF intent.intent = "query" THEN HandleQuery(S, intent)
    ELSE UNION {
        LET all_items == GetActiveItems(S.items, fetch)
            S1 == Observe(Observe(Call(S, "get_active_items", 0, fetch),
                                  "active", all_items), "fetched", TRUE)
        IN  UNION {
                LET matched_item == AiMatchTask(all_items, r)
                    S2 == Observe(Observe(Observe(
                              Call(S1, "ai_match_task", 0, r.kind = "json"),
                              "match", IF r.kind = "json" THEN {r.task_number} ELSE {}),
                              "confidence", IF r.kind = "json" THEN r.confidence ELSE "n/a"),
                              "matched", matched_item)
                IN  IF matched_item = {} THEN { Reply(S2, "not_found") }
                    ELSE ManageMatched(S2, u, intent,
                                       CHOOSE i \in matched_item : TRUE)
                : r \in MatchReplies(Len(all_items)) }
        : fetch \in BOOLEAN }

\* bot.py:734-827
HandleManagementCommand(S, u, intent) ==
    IF intent.intent = "query" THEN HandleQuery(S, intent)
    ELSE UNION {
        LET all_items == GetActiveItems(S.items, fetch)
            S1 == Observe(Observe(Call(S, "get_active_items", 0, fetch),
                                  "active", all_items), "fetched", TRUE)
        IN  IF all_items = <<>> THEN { Reply(S1, "no_items_to_manage") }
            ELSE UNION {
                LET matched_item == AiMatchTask(all_items, r)
                    S2 == Observe(Observe(Observe(
                              Call(S1, "ai_match_task", 0, r.kind = "json"),
                              "match", IF r.kind = "json" THEN {r.task_number} ELSE {}),
                              "confidence", IF r.kind = "json" THEN r.confidence ELSE "n/a"),
                              "matched", matched_item)
                IN  IF matched_item = {} THEN { Reply(S2, "not_found") }
                    ELSE ManageMatched(S2, u, intent,
                                       CHOOSE i \in matched_item : TRUE)
                : r \in MatchReplies(Len(all_items)) }
        : fetch \in BOOLEAN }

\* bot.py:641-652: the except branch of handle_text
OnTextError(S) ==
    { LET S1 == AddToBrainDump(S, FALSE, dump)
      IN  IF sent THEN Reply(S1, "error_added_to_brain_dump")
          ELSE Reply(S1, "critical_error")
      : dump \in BOOLEAN, sent \in BOOLEAN }

\* bot.py:605-639: categorize and add as a new item
CreateNew(S, u) ==
    UNION {
        LET result == CategorizeMessage(c)
            S1 == Call(S, "categorize_message", 0, c.kind # "error")
        IN  IF ~result.complete THEN OnTextError(S1)
            ELSE UNION {
                LET S2 == AddToLifeAreas(S1, result.category, result.priority, ok)
                IN  IF ok
                    THEN UNION { IF sent
                                 THEN { AwardXp(Reply(S2, "added"), u, XP_TASK_ADDED) }
                                 ELSE OnTextError(S2)
                                 : sent \in BOOLEAN }
                    ELSE { Reply(AddToBrainDump(S2, FALSE, dump), "added_to_brain_dump")
                           : dump \in BOOLEAN }
                : ok \in BOOLEAN }
        : c \in CatReplies }

\* ResolveText without the return after handle_habit_create: the utterance
\* goes on to the management check
ResolveText_FallThrough(S, u) ==
    UNION {
        LET habit_intent == ParseHabitIntent(hr)
            S1 == Observe(Call(S, "parse_habit_intent", 0, hr.kind = "json"),
                          "habit", habit_intent.intent)
            after_habit ==
                IF habit_intent.intent = "create_habit"
                THEN HandleHabitCreate(S1, u, habit_intent)
                ELSE { S1 }
        IN  IF habit_intent.intent = "complete_habit"
            THEN HandleHabitComplete(S1, u, habit_intent)
            ELSE UNION {
                LET intent == ParseManagementIntent(mr)
                    S2 == Observe(Observe(
                              Call(H, "parse_management_intent", 0, mr.kind = "json"),
                              "mgmt", mr.kind), "intent", intent.intent)
                IN  IF intent.intent # "none"
                    THEN HandleManagementCommand(S2, u, intent)
                    ELSE CreateNew(S2, u)
                : mr \in MgmtReplies, H \in after_habit }
        : hr \in HabitReplies }

\* bot.py:583-618: habit check, then management check, then create-new
ResolveText(S, u) ==
    UNION {
        LET habit_intent == ParseHabitIntent(hr)
            S1 == Observe(Call(S, "parse_habit_intent", 0, hr.kind = "json"),
                          "habit", habit_intent.intent)
        IN  IF habit_intent.intent = "create_habit"
            THEN HandleHabitCreate(S1, u, habit_intent)
            ELSE IF habit_intent.intent = "complete_habit"
            THEN HandleHabitComplete(S1, u, habit_intent)
            ELSE UNION {
                LET intent == ParseManagementIntent(mr)
                    S2 == Observe(Observe(
                              Call(S1, "parse_management_intent", 0, mr.kind = "json"),
                              "mgmt", mr.kind), "intent", intent.intent)
                IN  IF intent.intent # "none"
                    THEN HandleManagementCommand(S2, u, intent)
                    ELSE CreateNew(S2, u)
                : mr \in MgmtReplies }
        : hr \in HabitReplies }

\* bot.py:571
IsConfirmation(text) == Upper(text) \in CONFIRM_WORDS

\* bot.py:558-652
HandleText(S, u, text) ==
    IF u \in DOMAIN S.pending /\ IsConfirmation(text)
    THEN LET page_id == S.pending[u]
             S1 == [S EXCEPT !.pending = Pop(@, u)]
         IN  { Reply(DeleteItem(S1, page_id, ok),
                     IF ok THEN "deleted" ELSE "delete_failed")
               : ok \in BOOLEAN }
    ELSE IF u \in DOMAIN S.pending
    THEN { Reply([S EXCEPT !.pending = Pop(@, u)], "delete_cancelled") }
    ELSE ResolveText(S, u)

\* ------------------------------------------------ voice, photo, document
\* voice_transcriber.py:15-68: the text, or a marker that starts with "["
TRANSCRIPTION_FAILED == <<"[">>

Transcriptions == { <<"y","e","s">>, TRANSCRIPTION_FAILED }

\* bot.py:983-1024: a transcribed utterance that is neither habit nor
\* management; missing fields of the categorization take their defaults
VoiceCreateNew(S, text) ==
    UNION {
        LET result == CategorizeMessage(c)
            S1 == Call(S, "categorize_message", 0, c.kind # "error")
            category == IF result.complete THEN result.category ELSE "Ideas"
            priority == IF result.complete THEN result.priority ELSE "Low"
        IN  UNION {
                LET S2 == AddToLifeAreas(S1, category, priority, ok)
                IN  IF ok THEN { Reply(S2, "voice_added") }
                    ELSE { Reply(AddToBrainDump(S2, FALSE, dump),
                                 "voice_added_to_brain_dump")
                           : dump \in BOOLEAN }
                : ok \in BOOLEAN }
        : c \in CatReplies }

\* HandleVoice without the check of the error marker: what the transcriber
\* returns is always treated as the utterance
HandleVoice_MarkerAsText(S, u, transcription) ==
    LET S0 == Call(S, "transcribe_voice", 0, Head(transcription) # "[")
    IN  UNION {
            LET habit_intent == ParseHabitIntent(hr)
                S1 == Observe(Call(S0, "parse_habit_intent", 0, hr.kind = "json"),
                              "habit", habit_intent.intent)
            IN  IF habit_intent.intent = "create_habit"
                THEN { Reply(r, "transcript")
                       : r \in HandleHabitCreate(S1, u, habit_intent) }
                ELSE IF habit_intent.intent = "complete_habit"
                THEN { Reply(r, "transcript")
                       : r \in HandleHabitComplete(S1, u, habit_intent) }
                ELSE UNION {
                    LET intent == ParseManagementIntent(mr)
                        S2 == Observe(Observe(
                                  Call(S1, "parse_management_intent", 0, mr.kind = "json"),
                                  "mgmt", mr.kind), "intent", intent.intent)
                    IN  IF intent.intent # "none"
                        THEN { Reply(r, "transcript")
                               : r \in HandleManagementCommand(S2, u, intent) }
                        ELSE VoiceCreateNew(S2, transcription)
                    : mr \in MgmtReplies }
            : hr \in HabitReplies }

\* bot.py:923-1031
HandleVoice(S, u, transcription) ==
    LET S0 == Call(S, "transcribe_voice", 0, Head(transcription) # "[")
    IN  IF Head(transcription) = "["
        THEN { AddToBrainDump(Reply(S0, "transcription_failed"), TRUE, dump)
               : dump \in BOOLEAN }
        ELSE UNION {
            LET habit_intent == ParseHabitIntent(hr)
                S1 == Observe(Call(S0, "parse_habit_intent", 0, hr.kind = "json"),
                              "habit", habit_intent.intent)
            IN  IF habit_intent.intent = "create_habit"
                THEN { Reply(r, "transcript")
                       : r \in HandleHabitCreate(S1, u, habit_intent) }
                ELSE IF habit_intent.intent = "complete_habit"
                THEN { Reply(r, "transcript")
                       : r \in HandleHabitComplete(S1, u, habit_intent) }
                ELSE UNION {
                    LET intent == ParseManagementIntent(mr)
                        S2 == Observe(Observe(
                                  Call(S1, "parse_management_intent", 0, mr.kind = "json"),
                                  "mgmt", mr.kind), "intent", intent.intent)
                    IN  IF intent.intent # "none"
                        THEN { Reply(r, "transcript")
                               : r \in HandleManagementCommand(S2, u, intent) }
                        ELSE VoiceCreateNew(S2, transcription)
                    : mr \in MgmtReplies }
            : hr \in HabitReplies }

\* analyze_image's results (ai_categorizer.py:275-460): the vision reply, the
\* static fallback on failure, or an exception raised inside the handler
VisionReplies ==
    { [kind |-> "json", category |-> "Health", priority |-> "High"] }
    \cup { [kind |-> k, category |-> "Ideas", priority |-> "Low"]
           : k \in {"fallback", "raise"} }

\* bot.py:830-890
HandlePhoto(S, u) ==
    UNION {
        IF v.kind = "raise"
        THEN { Reply(AddToBrainDump(S, TRUE, dump), "photo_error_brain_dump")
               : dump \in BOOLEAN }
        ELSE UNION {
            LET S1 == Call(S, "analyze_image", 0, v.kind = "json")
                S2 == AddToLifeAreas(S1, v.category, v.priority, ok)
            IN  IF ok THEN { Reply(S2, "photo_added") }
                ELSE { Reply(AddToBrainDump(S2, TRUE, dump), "photo_brain_dump")
                       : dump \in BOOLEAN }
            : ok \in BOOLEAN }
        : v \in VisionReplies }

\* bot.py:893-920: the reply reads result['category'] and is not sent when
\* the categorization lacks it
HandleDocument(S, u) ==
    { LET result == CategorizeMessage(c)
          S1 == Call(Reply(S, "processing_document"), "categorize_message", 0,
                     c.kind # "error")
          S2 == AddToBrainDump(S1, TRUE, dump)
      IN  IF result.complete THEN Reply(S2, "document_saved") ELSE S2
      : c \in CatReplies, dump \in BOOLEAN }

\* ------------------------------------------------ focus mode
\* dict.get(key, default)
Get(d, k, default) == IF k \in DOMAIN d THEN d[k] ELSE default

FirstN(q, n) == SubSeq(q, 1, IF Len(q) < n THEN Len(q) ELSE n)

\* bot.py:1045-1093; the state it returns is the conversation's next state
FocusStart(S, u) ==
    { LET all_items == GetActiveItems(S.items, fetch)
          S1 == Call(Reply(S, "focus_fetching"), "get_active_items", 0, fetch)
          high_priority ==
              SelectSeq(all_items,
                        LAMBDA i : S.items[i].priority \in {"High", "Medium"})
      IN  IF all_items = <<>> THEN Reply(S1, "no_active_tasks")
          ELSE IF high_priority = <<>> THEN Reply(S1, "no_high_priority")
          ELSE Reply([S1 EXCEPT !.focus_tasks[u] = FirstN(high_priority, 5),
                                !.conv[u] = "choosing"],
                     "pick_one")
      : fetch \in BOOLEAN }

\* bot.py:1096-1131; data is the pressed button: cancel, or a task index
FocusChosen(S, u, data) ==
    IF data.cancel
    THEN { Reply([S EXCEPT !.conv[u] = "none"], "focus_pick_cancelled") }
    ELSE IF data.idx >= Len(S.focus_tasks[u])
    THEN { Reply([S EXCEPT !.conv[u] = "none"], "focus_went_wrong") }
    ELSE { Reply([S EXCEPT !.sessions = Put(@, u, S.focus_tasks[u][data.idx + 1]),
                           !.conv[u] = "active"],
                 "focus_active") }

\* bot.py:1165-1183: one queued text
ReplayOne(S, u) ==
    UNION {
        LET result == CategorizeMessage(c)
            S1 == Call(S, "categorize_message", 0, c.kind # "error")
        IN  IF ~result.complete THEN { Reply(S1, "queued_failed") }
            ELSE { LET S2 == AddToLifeAreas(S1, result.category, result.priority, ok)
                   IN  IF ok
                       THEN AwardXp(Reply(S2, "queued_added"), u, XP_TASK_ADDED)
                       ELSE S2
                   : ok \in BOOLEAN }
        : c \in CatReplies }

RECURSIVE Replay(_, _, _)
\* bot.py:1164-1183: the loop over the queued texts
Replay(S, u, queue) ==
    IF queue = <<>> THEN { S }
    ELSE UNION { Replay(S1, u, Tail(queue)) : S1 \in ReplayOne(S, u) }

\* bot.py:1140
IsDonePhrase(text) == Lower(text) \in DONE_WORDS

\* bot.py:1134-1206
FocusComplete(S, u, text) ==
    IF IsDonePhrase(text)
    THEN LET session == IF u \in DOMAIN S.sessions THEN { S.sessions[u] } ELSE {}
             pending_tasks == Get(S.backlog, u, <<>>)
             S1 == [S EXCEPT !.sessions = Pop(@, u), !.backlog = Pop(@, u),
                             !.conv[u] = "none"]
         IN  IF session # {}
             THEN UNION {
                 LET page_id == CHOOSE i \in session : TRUE
                     S2 == Reply(AwardXp(UpdateItem(S1, page_id, "status",
                                                    STATUS_DONE, ok),
                                         u, XP_FOCUS_COMPLETED),
                                 "focus_completed")
                 IN  { IF pending_tasks # <<>> THEN Reply(r, "take_a_breather") ELSE r
                       : r \in Replay(S2, u, pending_tasks) }
                 : ok \in BOOLEAN }
             ELSE { Reply(S1, "no_focus_session") }
    ELSE { Reply([S EXCEPT !.backlog = Put(@, u, Append(Get(@, u, <<>>), text))],
                 "queued") }

\* FocusCancel that ends the session and leaves the queued texts
FocusCancel_KeepBacklog(S, u) ==
    LET pending_count == Len(Get(S.backlog, u, <<>>))
        S1 == [S EXCEPT !.sessions = Pop(@, u), !.conv[u] = "none"]
    IN  { IF pending_count > 0
          THEN Reply(Observe(S1, "discarded", { pending_count }),
                     "focus_ended_discarded")
          ELSE Reply(S1, "focus_ended") }

\* bot.py:1209-1220; the number in the message is noted as discarded
FocusCancel(S, u) ==
    LET pending_count == Len(Get(S.backlog, u, <<>>))
        S1 == [S EXCEPT !.sessions = Pop(@, u), !.backlog = Pop(@, u),
                        !.conv[u] = "none"]
    IN  { IF pending_count > 0
          THEN Reply(Observe(S1, "discarded", { pending_count }),
                     "focus_ended_discarded")
          ELSE Reply(S1, "focus_ended") }

\* ------------------------------------------------ the paginated list
\* bot.py:247
per_page == 5

\* bot.py:245-285: one page of the list; the navigation row is attached
\* only when it has more than the page indicator (query.answer() only stops
\* the client's progress indicator and is not recorded)
SendPaginatedActive(S, list, page) ==
    LET start == page * per_page
        end == IF start + per_page < Len(list) THEN start + per_page ELSE Len(list)
        nav_buttons ==
            (IF page > 0 THEN { [noop |-> FALSE, page |-> page - 1] } ELSE {})
            \cup { [noop |-> TRUE, page |-> 0] }
            \cup (IF end < Len(list) THEN { [noop |-> FALSE, page |-> page + 1] }
                  ELSE {})
    IN  Reply([S EXCEPT !.keyboard = IF Cardinality(nav_buttons) > 1
                                     THEN nav_buttons ELSE {}],
              "active_items_page")

\* bot.py:225-242
ActiveCommand(S, u) ==
    { LET list == GetActiveItems(S.items, fetch)
          S1 == Call(Reply(S, "fetching_active"), "get_active_items", 0, fetch)
      IN  IF list = <<>> THEN Reply(S1, "no_active_items")
          ELSE SendPaginatedActive(
                   [S1 EXCEPT !.data[u] = [active_items |-> list, active_page |-> 0]],
                   list, 0)
      : fetch \in BOOLEAN }

\* bot.py:289-306; data is the pressed button
HandleActivePagination(S, u, data) ==
    IF data.noop THEN { S }
    ELSE LET list == S.data[u].active_items
         IN  IF list = <<>>
             THEN { Reply([S EXCEPT !.keyboard = {}], "session_expired") }
             ELSE { SendPaginatedActive([S EXCEPT !.data[u].active_page = data.page],
                                        list, data.page) }

\* ------------------------------------------------ access control
\* Secure with a limiter that turns an update away only when more than
\* MAX_REQUESTS_PER_WINDOW timestamps are in the window
Secure_OneMore(S, u, body) ==
    IF ALLOWED_USER_IDS # {} /\ u \notin ALLOWED_USER_IDS
    THEN { Observe(S, "gate", "unauthorized") }
    ELSE LET recent == SelectSeq(S.hist[u], LAMBDA t : now - t < RATE_LIMIT_WINDOW)
         IN  IF Len(recent) > MAX_REQUESTS_PER_WINDOW
             THEN { Reply(Observe([S EXCEPT !.hist[u] = recent], "gate", "limited"),
                          "too_many_requests") }
             ELSE { Observe([r EXCEPT !.hist[u] = Append(recent, now)], "gate", "pass")
                    : r \in body }

\* bot.py:60-103: secure = authorized_only(rate_limited(func)); body is the
\* set of states func can end in
Secure(S, u, body) ==
    IF ALLOWED_USER_IDS # {} /\ u \notin ALLOWED_USER_IDS
    THEN { Observe(S, "gate", "unauthorized") }
    ELSE LET recent == SelectSeq(S.hist[u], LAMBDA t : now - t < RATE_LIMIT_WINDOW)
         IN  IF Len(recent) >= MAX_REQUESTS_PER_WINDOW
             THEN { Reply(Observe([S EXCEPT !.hist[u] = recent], "gate", "limited"),
                          "too_many_requests") }
             ELSE { Observe([r EXCEPT !.hist[u] = Append(recent, now)], "gate", "pass")
                    : r \in body }

\* ------------------------------------------------ the state machine
DoneLower == <<"d","o","n","e">>

\* the Life Areas database when the bot starts: empty, or an active
\* high-priority page followed by a page whose status is "done"
InitStores ==
    { <<>>,
      << NewItem("Health", "High"),
         [status |-> DoneLower, priority |-> "Low", category |-> "Health",
          archived |-> FALSE] >> }

\* nothing done yet by any handler in flight
NoAudit ==
    [actor |-> "none", started |-> 0,
     granted |-> [u \in Everyone |-> 0],
     marked |-> [u \in Everyone |-> 0],
     focus_awards |-> [u \in Everyone |-> 0],
     popped |-> [u \in Everyone |-> <<>>],
     replayed |-> [u \in Everyone |-> <<>>],
     refused |-> [u \in Everyone |-> 0],
     overtaken |-> [u \in Everyone |-> 0],
     completed |-> [u \in Everyone |-> FALSE]]

\* context.user_data before /active has stored anything
NoData == [active_items |-> <<>>, active_page |-> 0]

NoEvent ==
    [user |-> "none", kind |-> "none", handler |-> "none", text |-> <<>>,
     pendingBefore |-> {}, convBefore |-> "none", itemsBefore |-> <<>>,
     habitsBefore |-> <<>>,
     sessionBefore |-> {}, backlogBefore |-> <<>>, xpBefore |-> 0,
     streakBefore |-> 0, lastBefore |-> {}, amount |-> 0,
     historyBefore |-> <<>>, at |-> 0,
     dataBefore |-> NoData, keyboardBefore |-> {},
     result |-> <<>>, category |-> "n/a", ok |-> TRUE, exact |-> TRUE,
     failing |-> 0, outcome |-> "n/a", limit |-> 0, hour |-> 0, tz |-> 0,
     calls |-> <<>>, replies |-> <<>>, obs |-> NoObs]

\* the dictionaries of the process when it starts
InitProcess ==
    /\ habits = <<>>
    /\ pending_deletes = Empty
    /\ conv = [u \in Everyone |-> "none"]
    /\ focus_tasks = [u \in Everyone |-> <<>>]
    /\ focus_sessions = Empty
    /\ focus_pending = Empty
    /\ user_xp = [u \in Everyone |-> [xp |-> 0, last_action |-> {}, streak |-> 0]]
    /\ request_history = [u \in Everyone |-> <<>>]
    /\ now = 0
    /\ today = 0
    /\ passed = [u \in Everyone |-> <<>>]
    /\ user_data = [u \in Everyone |-> NoData]
    /\ keyboard = {}
    /\ flight = <<>>
    /\ audit = NoAudit
    /\ ev = NoEvent

Init ==
    /\ items \in InitStores
    /\ InitProcess

\* the handler ends in S: the dictionaries and the store take its values
Commit(u, kind, handler, text, S) ==
    /\ items' = S.items
    /\ habits' = S.habits
    /\ pending_deletes' = S.pending
    /\ conv' = S.conv
    /\ focus_tasks' = S.focus_tasks
    /\ focus_sessions' = S.sessions
    /\ focus_pending' = S.backlog
    /\ user_xp' = S.xp
    /\ request_history' = S.hist
    /\ ev' = [user |-> u, kind |-> kind, handler |-> handler, text |-> text,
              pendingBefore |-> IF u \in DOMAIN pending_deletes
                                THEN { pending_deletes[u] } ELSE {},
              convBefore |-> conv[u], itemsBefore |-> items,
              habitsBefore |-> habits,
              sessionBefore |-> IF u \in DOMAIN focus_sessions
                                THEN { focus_sessions[u] } ELSE {},
              backlogBefore |-> Get(focus_pending, u, <<>>),
              xpBefore |-> user_xp[u].xp,
              streakBefore |-> user_xp[u].streak,
              lastBefore |-> user_xp[u].last_action, amount |-> 0,
              historyBefore |-> request_history[u], at |-> now,
              dataBefore |-> user_data[u], keyboardBefore |-> keyboard,
              result |-> <<>>, category |-> "n/a", ok |-> TRUE, exact |-> TRUE,
              failing |-> 0, outcome |-> "n/a", limit |-> 0, hour |-> 0,
              tz |-> 0,
              calls |-> S.calls, replies |-> S.replies, obs |-> S.obs]
    /\ user_data' = S.data
    /\ keyboard' = S.keyboard
    /\ passed' = IF S.obs.gate = "pass"
                 THEN [passed EXCEPT ![u] = Append(@, now)]
                 ELSE passed
    /\ UNCHANGED << now, today, flight, audit >>

\* the model follows each user for MaxEvents rate-limited updates
InBudget(u) == Len(request_history[u]) < MaxEvents

\* the transport hands over one update at a time: ev holds what the handler
\* of the update in hand did, and is cleared when the update is finished
Idle == ev.kind = "none"

Finish ==
    /\ ~Idle
    /\ ev' = NoEvent
    /\ UNCHANGED << items, habits, pending_deletes, conv, focus_tasks,
                    focus_sessions, focus_pending, user_xp, request_history,
                    now, today, passed, user_data, keyboard,
                    flight, audit >>

\* TextUpdate with the generic text handler registered before focus_handler:
\* every text goes to handle_text
TextUpdate_GenericFirst ==
    /\ Idle
    /\ \E u \in Users, text \in Texts :
        /\ InBudget(u)
        /\ \E S \in Secure(Begin, u, HandleText(Begin, u, text)) :
               Commit(u, "text", "handle_text", text, S)

\* bot.py:1224-1234 and 1376-1383: a text that is not a command goes to
\* focus_complete while the user's focus conversation is in FOCUS_ACTIVE
\* (focus_handler is registered before the generic text handler), and to
\* handle_text otherwise
TextUpdate ==
    /\ Idle
    /\ \E u \in Users, text \in Texts :
        IF conv[u] = "active"
        THEN /\ IsDonePhrase(text) \/ Len(Get(focus_pending, u, <<>>)) < MaxBacklog
             /\ \E S \in FocusComplete(Begin, u, text) :
                    Commit(u, "text", "focus_complete", text, S)
        ELSE /\ InBudget(u)
             /\ \E S \in Secure(Begin, u, HandleText(Begin, u, text)) :
                    Commit(u, "text", "handle_text", text, S)

\* bot.py:1386
VoiceUpdate ==
    /\ Idle
    /\ \E u \in Users, t \in Transcriptions :
        /\ InBudget(u)
        /\ \E S \in Secure(Begin, u, HandleVoice(Begin, u, t)) :
               Commit(u, "voice", "handle_voice", t, S)

\* bot.py:1384
PhotoUpdate ==
    /\ Idle
    /\ \E u \in Users :
        /\ InBudget(u)
        /\ \E S \in Secure(Begin, u, HandlePhoto(Begin, u)) :
               Commit(u, "photo", "handle_photo", <<>>, S)

\* bot.py:1385
DocumentUpdate ==
    /\ Idle
    /\ \E u \in Users :
        /\ InBudget(u)
        /\ \E S \in Secure(Begin, u, HandleDocument(Begin, u)) :
               Commit(u, "document", "handle_document", <<>>, S)

\* bot.py:1225: /focus is the conversation's entry point; it is looked at
\* only while the user is in no state of the conversation
FocusCommand ==
    /\ Idle
    /\ \E u \in Users :
        /\ conv[u] = "none"
        /\ InBudget(u)
        /\ \E S \in Secure(Begin, u, FocusStart(Begin, u)) :
               Commit(u, "command", "focus_start", <<>>, S)

\* bot.py:1227: a focus_ button pressed while the user is choosing
FocusButton ==
    /\ Idle
    /\ \E u \in Users :
        /\ conv[u] = "choosing"
        /\ \E data \in { [cancel |-> TRUE, idx |-> 0] }
                       \cup { [cancel |-> FALSE, idx |-> i]
                              : i \in 0..Len(focus_tasks[u]) } :
           \E S \in FocusChosen(Begin, u, data) :
               Commit(u, "button", "focus_chosen", <<>>, S)

\* bot.py:1230-1233: /cancel inside the conversation
CancelCommand ==
    /\ Idle
    /\ \E u \in Users :
        /\ conv[u] \in {"choosing", "active"}
        /\ \E S \in FocusCancel(Begin, u) :
               Commit(u, "command", "focus_cancel", <<>>, S)

Next ==
    \/ TextUpdate
    \/ VoiceUpdate
    \/ PhotoUpdate
    \/ DocumentUpdate
    \/ FocusCommand
    \/ FocusButton
    \/ CancelCommand
    \/ Finish

Spec == Init /\ [][Next]_vars

\* ------------------------------------------------ the ledger over the days
\* the amounts the handlers pass to add_xp (bot.py:633, 810, 1149, 1180)
AwardAmounts == { XP_TASK_ADDED, XP_FOCUS_COMPLETED }

InitLedger == Init /\ items = <<>>

\* datetime.now().date() moves on by one to three days
DayPasses ==
    /\ Idle
    /\ \E d \in 1..3 :
          /\ today + d <= MaxDay
          /\ today' = today + d
    /\ UNCHANGED << items, habits, pending_deletes, conv, focus_tasks,
                    focus_sessions, focus_pending, user_xp, request_history,
                    now, passed, user_data, keyboard,
                    flight, audit, ev >>

\* bot.py:144-173: one call add_xp(user_id, amount, reason)
AwardCall ==
    /\ Idle
    /\ \E u \in Users, amount \in AwardAmounts :
          /\ user_xp[u].xp + amount <= MaxLedgerXp
          /\ user_xp' = [user_xp EXCEPT ![u] = AddXp(@, amount)]
          /\ ev' = [NoEvent EXCEPT !.user = u, !.kind = "call",
                                   !.handler = "add_xp",
                                   !.xpBefore = user_xp[u].xp,
                                   !.streakBefore = user_xp[u].streak,
                                   !.lastBefore = user_xp[u].last_action,
                                   !.amount = amount]
    /\ UNCHANGED << items, habits, pending_deletes, conv, focus_tasks,
                    focus_sessions, focus_pending, request_history, now,
                    today, passed, user_data, keyboard,
                    flight, audit >>

NextLedger ==
    \/ DayPasses
    \/ AwardCall
    \/ Finish

SpecLedger == InitLedger /\ [][NextLedger]_vars

\* ------------------------------------------------ the levels
\* an XP record after one award on day 0, for every total up to MaxProbeXp
InitLevel ==
    /\ items = <<>>
    /\ habits = <<>>
    /\ pending_deletes = Empty
    /\ conv = [u \in Everyone |-> "none"]
    /\ focus_tasks = [u \in Everyone |-> <<>>]
    /\ focus_sessions = Empty
    /\ focus_pending = Empty
    /\ \E x \in 0..MaxProbeXp :
          user_xp = [u \in Everyone |-> [xp |-> x, last_action |-> {0}, streak |-> 1]]
    /\ request_history = [u \in Everyone |-> <<>>]
    /\ now = 0
    /\ today = 0
    /\ passed = [u \in Everyone |-> <<>>]
    /\ user_data = [u \in Everyone |-> NoData]
    /\ keyboard = {}
    /\ flight = <<>>
    /\ audit = NoAudit
    /\ ev = NoEvent

\* bot.py:1363: the /stats command
StatsUpdate ==
    /\ Idle
    /\ \E u \in Users :
        /\ InBudget(u)
        /\ \E S \in Secure(Begin, u, StatsCommand(Begin, u)) :
               Commit(u, "command", "stats_command", <<>>, S)

NextLevel ==
    \/ StatsUpdate
    \/ Finish

SpecLevel == InitLevel /\ [][NextLevel]_vars

\* ------------------------------------------------ the rate limiter
\* bot.py:84: time.time() moves on
Tick ==
    /\ Idle
    /\ \E d \in {40} :
          /\ now + d <= MaxNow
          /\ now' = now + d
    /\ UNCHANGED << items, habits, pending_deletes, conv, focus_tasks,
                    focus_sessions, focus_pending, user_xp, request_history,
                    today, passed, user_data, keyboard,
                    flight, audit, ev >>

\* bot.py:86-91: the limiter would turn the user's next update away
OverLimit(u) ==
    Len(SelectSeq(request_history[u], LAMBDA t : now - t < RATE_LIMIT_WINDOW))
        >= MAX_REQUESTS_PER_WINDOW

\* bot.py:1361: the /help command, any number of times
HelpUpdate ==
    /\ Idle
    /\ \E u \in Users :
          \E S \in Secure(Begin, u, HelpCommand(Begin, u)) :
              Commit(u, "command", "help_command", <<>>, S)

\* bot.py:1383: a text outside focus mode; followed for a user's first
\* update and whenever the window is full
GateText ==
    /\ Idle
    /\ \E u \in Users, text \in Texts :
          /\ conv[u] # "active"
          /\ passed[u] = <<>> \/ OverLimit(u)
          /\ \E S \in Secure(Begin, u, HandleText(Begin, u, text)) :
                 Commit(u, "text", "handle_text", text, S)

NextGate ==
    \/ Tick
    \/ HelpUpdate
    \/ GateText
    \/ Finish

SpecGate == Init /\ [][NextGate]_vars

\* ------------------------------------------------ users outside the list
\* the Life Areas database holds more active pages than one page of the list
InitAccess ==
    /\ InitProcess
    /\ items = [i \in 1..(per_page + 1) |-> NewItem("Health", "High")]

\* bot.py:1362: /active
ActiveUpdate ==
    /\ Idle
    /\ \E u \in Everyone :
          /\ InBudget(u)
          /\ \E S \in Secure(Begin, u, ActiveCommand(Begin, u)) :
                 Commit(u, "command", "active_command", <<>>, S)

\* bot.py:1380: a button under the list is pressed by anyone who sees it
PageButton ==
    /\ Idle
    /\ \E u \in Everyone, data \in keyboard :
          \E S \in HandleActivePagination(Begin, u, data) :
              Commit(u, "button", "handle_active_pagination", <<>>, S)

\* bot.py:1383
StrangerText ==
    /\ Idle
    /\ \E u \in Strangers, text \in Texts :
          \E S \in Secure(Begin, u, HandleText(Begin, u, text)) :
              Commit(u, "text", "handle_text", text, S)

\* bot.py:1386
StrangerVoice ==
    /\ Idle
    /\ \E u \in Strangers, t \in Transcriptions :
          \E S \in Secure(Begin, u, HandleVoice(Begin, u, t)) :
              Commit(u, "voice", "handle_voice", t, S)

\* bot.py:1384
StrangerPhoto ==
    /\ Idle
    /\ \E u \in Strangers :
          \E S \in Secure(Begin, u, HandlePhoto(Begin, u)) :
              Commit(u, "photo", "handle_photo", <<>>, S)

\* bot.py:1385
StrangerDocument ==
    /\ Idle
    /\ \E u \in Strangers :
          \E S \in Secure(Begin, u, HandleDocument(Begin, u)) :
              Commit(u, "document", "handle_document", <<>>, S)

\* bot.py:1225, 1361, 1363: /focus, /help and /stats
StrangerCommand ==
    /\ Idle
    /\ \E u \in Strangers :
          \/ \E S \in Secure(Begin, u, FocusStart(Begin, u)) :
                 Commit(u, "command", "focus_start", <<>>, S)
          \/ \E S \in Secure(Begin, u, HelpCommand(Begin, u)) :
                 Commit(u, "command", "help_command", <<>>, S)
          \/ \E S \in Secure(Begin, u, StatsCommand(Begin, u)) :
                 Commit(u, "command", "stats_command", <<>>, S)

NextAccess ==
    \/ ActiveUpdate
    \/ PageButton
    \/ DocumentUpdate
    \/ StrangerText
    \/ StrangerVoice
    \/ StrangerPhoto
    \/ StrangerDocument
    \/ StrangerCommand
    \/ Finish

SpecAccess == InitAccess /\ [][NextAccess]_vars

\* ------------------------------------------------ the store's queries
\* status names a page of the store can carry: none, Active in two
\* spellings, three that hide the item, and one the bot never writes
StoreStatuses ==
    { <<>>, STATUS_ACTIVE, <<"a","c","t","i","v","e">>, STATUS_DONE,
      <<"C","O","M","P","L","E","T","E","D">>,
      <<"A","r","c","h","i","v","e","d">>, <<"P","a","r","k","e","d">> }

StoreTitles == { <<"G","y","m">>, <<"d","e","l","e","t","e"," ","i","t">> }

StoreCategories == { "Health", "Study" }

StorePages ==
    { [status |-> st, priority |-> "High", category |-> c, archived |-> FALSE,
       title |-> t]
      : st \in StoreStatuses, c \in StoreCategories, t \in StoreTitles }

\* the queries: a title, a stoplist word before a title, a word that matches
\* nothing before a title, a stoplist word that stands in a title
Queries ==
    { <<"g","y","m">>, <<"m","y"," ","g","y","m">>,
      <<"b","u","y"," ","G","y","m">>,
      <<"d","e","l","e","t","e"," ","n","o","w">> }

InitQueries ==
    /\ InitProcess
    /\ \E n \in 0..MaxStore : items \in [1..n -> StorePages]

\* the variables a query leaves alone
QueryFrame ==
    UNCHANGED << items, habits, pending_deletes, conv, focus_tasks,
                 focus_sessions, focus_pending, user_xp, request_history,
                 now, today, passed, user_data, keyboard,
                    flight, audit >>

\* notion_integration.py:149: one call get_active_items()
ListActiveCall ==
    /\ Idle
    /\ \E ok \in BOOLEAN :
          ev' = [NoEvent EXCEPT !.kind = "call", !.handler = "get_active_items",
                                !.ok = ok, !.result = GetActiveItems(items, ok)]
    /\ QueryFrame

\* notion_integration.py:274: one call get_items_by_category(category)
ListByCategoryCall ==
    /\ Idle
    /\ \E ok \in BOOLEAN, c \in StoreCategories :
          ev' = [NoEvent EXCEPT !.kind = "call",
                                !.handler = "get_items_by_category",
                                !.ok = ok, !.category = c,
                                !.result = GetItemsByCategory(items, c, ok)]
    /\ QueryFrame

\* notion_integration.py:199: one call search_items(query)
SearchCall ==
    /\ Idle
    /\ \E q \in Queries, exact \in BOOLEAN, failing \in 0..3 :
          ev' = [NoEvent EXCEPT !.kind = "call", !.handler = "search_items",
                                !.text = q, !.exact = exact,
                                !.failing = failing, !.ok = (failing = 0),
                                !.result = SearchItems(items, q, exact, failing)]
    /\ QueryFrame

NextQueries ==
    \/ ListActiveCall
    \/ ListByCategoryCall
    \/ SearchCall
    \/ Finish

SpecQueries == InitQueries /\ [][NextQueries]_vars

\* ------------------------------------------------ the store's writes
\* the updates update_item accepts for the fields the bot writes
\* (notion_integration.py:429-445)
StoreUpdates ==
    { [field |-> "status", value |-> st] : st \in { STATUS_DONE, STATUS_ACTIVE } }
    \cup { [field |-> "priority", value |-> p] : p \in { "High", "Low" } }

\* notion_integration.py:457: one call delete_item(page_id)
DeleteCall ==
    /\ Idle
    /\ \E u \in Users, id \in DOMAIN items, ok \in BOOLEAN :
          Commit(u, "call", "delete_item", <<>>, DeleteItem(Begin, id, ok))

\* notion_integration.py:429: one call update_item(page_id, updates)
UpdateCall ==
    /\ Idle
    /\ \E u \in Users, id \in DOMAIN items, upd \in StoreUpdates, ok \in BOOLEAN :
          Commit(u, "call", "update_item", <<>>,
                 UpdateItem(Begin, id, upd.field, upd.value, ok))

\* notion_integration.py:15: one call add_to_life_areas(...)
CreateCall ==
    /\ Idle
    /\ Len(items) <= MaxStore
    /\ \E u \in Users, ok \in BOOLEAN :
          Commit(u, "call", "add_to_life_areas", <<>>,
                 AddToLifeAreas(Begin, "Health", "High", ok))

NextWrites ==
    \/ DeleteCall
    \/ UpdateCall
    \/ CreateCall
    \/ Finish

SpecWrites == Init /\ [][NextWrites]_vars

\* ------------------------------------------------ the categorizer alone
\* the keys the prompt asks the provider for (ai_categorizer.py:40-47)
REPLY_KEYS == { "category", "type", "priority", "title", "summary" }

\* what the provider sends back as content, when it is a JSON object: any
\* set of the keys, with a category of the prompt's list or another one
ProviderObjects ==
    { [k \in keys |-> IF k = "category" THEN c ELSE "from_provider"]
      : keys \in SUBSET REPLY_KEYS, c \in { "Health", "Fun" } }

\* how one request to the provider ends
ProviderOutcomes ==
    { [kind |-> k, content |-> << >>]
      : k \in { "no_key", "transport_error", "timeout", "non200", "nonjson" } }
    \cup { [kind |-> "json", content |-> o] : o \in ProviderObjects }

\* a short message, one of 50 and one of 51 characters
Messages ==
    { <<"b","u","y"," ","m","i","l","k">>, [i \in 1..50 |-> "y"],
      [i \in 1..51 |-> "x"] }

\* ai_categorizer.py:222-229 and 262-272: the fallback record
FallbackRecord(message_text, action) ==
    [category |-> "Ideas", type |-> "Idea", priority |-> "Low",
     title |-> FirstN(message_text, 50), summary |-> message_text,
     suggested_action |-> action]

\* ai_categorizer.py:200-272: the parsed content as it is, and the fallback
\* record when the key is missing or anything raises
CategorizeRecord(message_text, p) ==
    IF p.kind = "no_key"
    THEN FallbackRecord(message_text, "not_configured")
    ELSE IF p.kind = "json" THEN p.content
    ELSE FallbackRecord(message_text, "review_manually")

\* one call categorize_message(message_text)
CategorizeCall ==
    /\ Idle
    /\ \E m \in Messages, p \in ProviderOutcomes :
          ev' = [NoEvent EXCEPT !.kind = "call", !.handler = "categorize_message",
                                !.text = m, !.outcome = p.kind,
                                !.ok = (p.kind = "json"),
                                !.result = CategorizeRecord(m, p)]
    /\ QueryFrame

\* bot.py:605-639 with the categorizer's record in full: a missing key
\* raises KeyError into the handler's except branch
CreateFromRecord(S, u, result) ==
    LET S1 == Call(S, "categorize_message", 0, TRUE)
    IN  IF ~({ "category", "title", "type", "priority", "summary" }
                \subseteq DOMAIN result)
        THEN OnTextError(S1)
        ELSE UNION {
            LET S2 == AddToLifeAreas(S1, result.category, result.priority, ok)
            IN  IF ok
                THEN UNION { IF sent
                             THEN { AwardXp(Reply(S2, "added"), u, XP_TASK_ADDED) }
                             ELSE OnTextError(S2)
                             : sent \in BOOLEAN }
                ELSE { Reply(AddToBrainDump(S2, FALSE, dump), "added_to_brain_dump")
                       : dump \in BOOLEAN }
            : ok \in BOOLEAN }

\* bot.py:1383: a text that neither classifier takes for a habit or a
\* management command
CreateUpdate ==
    /\ Idle
    /\ \E u \in Users, m \in Messages, p \in ProviderOutcomes :
          /\ InBudget(u)
          /\ \E S \in Secure(Begin, u, CreateFromRecord(Begin, u, CategorizeRecord(m, p))) :
                 Commit(u, "text", "handle_text", m, S)

NextClassify ==
    \/ CategorizeCall
    \/ CreateUpdate
    \/ Finish

SpecClassify == InitLedger /\ [][NextClassify]_vars

\* ------------------------------------------------ completing a habit
\* The Habits database when a completion arrives: pages with a name, a
\* reward and the Active box ticked or not, none completed yet.
HabitTitles ==
    { <<"G","y","m">>, <<"g","y","m"," ","c","l","a","s","s">>, <<"R","u","n">> }

HabitRewards == { 25, 10 }

HabitPages ==
    { [name |-> n, xp |-> x, active |-> a, last_completed |-> {}]
      : n \in HabitTitles, x \in HabitRewards, a \in BOOLEAN }

\* the names the habit classifier hands over with complete_habit
RequestedNames ==
    { <<>>, <<"g","y","m">>, <<"s","w","i","m">>,
      <<"m","y"," ","G","Y","M"," ","c","l","a","s","s">> }

InitHabits ==
    /\ items = <<>>
    /\ \E n \in 0..MaxHabits : habits \in [1..n -> HabitPages]
    /\ pending_deletes = Empty
    /\ conv = [u \in Everyone |-> "none"]
    /\ focus_tasks = [u \in Everyone |-> <<>>]
    /\ focus_sessions = Empty
    /\ focus_pending = Empty
    /\ user_xp = [u \in Everyone |-> [xp |-> 0, last_action |-> {}, streak |-> 0]]
    /\ request_history = [u \in Everyone |-> <<>>]
    /\ now = 0
    /\ today = 0
    /\ passed = [u \in Everyone |-> <<>>]
    /\ user_data = [u \in Everyone |-> NoData]
    /\ keyboard = {}
    /\ flight = <<>>
    /\ audit = NoAudit
    /\ ev = NoEvent

\* bot.py:583-598: a text for which the habit classifier answers
\* complete_habit with the name n
HabitCompleteUpdate ==
    /\ Idle
    /\ \E u \in Users, n \in RequestedNames :
          /\ InBudget(u)
          /\ LET habit_intent == [intent |-> "complete_habit", habit_name |-> n,
                                  xp_reward |-> 25]
                 S1 == Observe(Call(Begin, "parse_habit_intent", 0, TRUE),
                               "habit", habit_intent.intent)
             IN  \E S \in Secure(Begin, u, HandleHabitComplete(S1, u, habit_intent)) :
                    Commit(u, "text", "handle_text", n, S)

NextHabits ==
    \/ HabitCompleteUpdate
    \/ Finish

SpecHabits == InitHabits /\ [][NextHabits]_vars

\* ------------------------------------------------ deadlines
\* A date property of a page: missing from the page, present without a
\* date, a day (YYYY-MM-DD, at counts days) or a time of a day (with "T",
\* at counts hours); days and hours are counted from the start of day 0.
NoDate == [kind |-> "absent", at |-> 0]
EmptyDate == [kind |-> "empty", at |-> 0]
OnDay(d) == [kind |-> "day", at |-> d]
AtHour(h) == [kind |-> "time", at |-> h]

HoursPerDay == 24

\* notion_integration.py:314-317: the first of Date, Due Date, Deadline that
\* the page has
DateProp(item) ==
    IF item.Date.kind # "absent" THEN item.Date
    ELSE IF item.DueDate.kind # "absent" THEN item.DueDate
    ELSE IF item.Deadline.kind # "absent" THEN item.Deadline
    ELSE NoDate

\* notion_integration.py:331-337: whole days for a day, timedelta.days (the
\* floor) for a time; hour is the local hour of the local day today
DaysLeft(d, hour) ==
    IF d.kind = "day" THEN d.at - today
    ELSE (d.at - (today * HoursPerDay + hour)) \div HoursPerDay

\* list.sort(key=days_left): e goes behind the entries that are not later
InsertByDaysLeft(sorted, e) ==
    LET keep == { i \in 0..Len(sorted) :
                    \A j \in 1..i : sorted[j].days_left <= e.days_left }
        k == CHOOSE i \in keep : \A j \in keep : j <= i
    IN  SubSeq(sorted, 1, k) \o << e >> \o SubSeq(sorted, k + 1, Len(sorted))

RECURSIVE SortByDaysLeft(_)
SortByDaysLeft(q) ==
    IF q = <<>> THEN <<>>
    ELSE InsertByDaysLeft(SortByDaysLeft(SubSeq(q, 1, Len(q) - 1)), q[Len(q)])

\* the entries of the dated active items, in the store's order
RECURSIVE DeadlineEntries(_, _, _)
DeadlineEntries(its, ids, hour) ==
    IF ids = <<>> THEN <<>>
    ELSE LET i == Head(ids)
             date_prop == DateProp(its[i])
             rest == DeadlineEntries(its, Tail(ids), hour)
         IN  IF date_prop.kind \in { "absent", "empty" } THEN rest
             ELSE LET days_left == DaysLeft(date_prop, hour)
                  IN  << [id |-> i, days_left |-> days_left] >> \o rest

\* GetUpcomingDeadlines that keeps the entries however long overdue
GetUpcomingDeadlines_NoCutoff(its, limit, hour, ok) ==
    FirstN(SortByDaysLeft(DeadlineEntries(its, GetActiveItems(its, ok), hour)),
           limit)

\* notion_integration.py:299-380
GetUpcomingDeadlines(its, limit, hour, ok) ==
    LET deadlines == SelectSeq(DeadlineEntries(its, GetActiveItems(its, ok), hour),
                               LAMBDA e : e.days_left >= -1)
    IN  FirstN(SortByDaysLeft(deadlines), limit)

\* the dates a page's Date property shows
DateValues ==
    { NoDate, EmptyDate, OnDay(-2), OnDay(-1), OnDay(1),
      AtHour(-25), AtHour(-11), AtHour(30) }

\* the pages of a store with deadlines: the Date property with or without a
\* Due Date or a Deadline, and one page that is done
DatedPages ==
    { [status |-> STATUS_ACTIVE, priority |-> "High", category |-> "Health",
       archived |-> FALSE, Date |-> d, DueDate |-> o[1], Deadline |-> o[2]]
      : d \in DateValues,
        o \in { << NoDate, NoDate >>, << EmptyDate, NoDate >>,
                << OnDay(0), NoDate >>, << NoDate, OnDay(2) >> } }
    \cup { [status |-> STATUS_DONE, priority |-> "High", category |-> "Health",
            archived |-> FALSE, Date |-> OnDay(1), DueDate |-> NoDate,
            Deadline |-> NoDate] }

\* the hours of the day at which the question is asked
Hours == { 1, 22 }

InitDeadlines ==
    /\ InitProcess
    /\ \E n \in 0..MaxStore : items \in [1..n -> DatedPages]

\* notion_integration.py:299: one call get_upcoming_deadlines(limit)
DeadlinesCall ==
    /\ Idle
    /\ \E limit \in 0..MaxStore, hour \in Hours, ok \in BOOLEAN :
          ev' = [NoEvent EXCEPT !.kind = "call",
                                !.handler = "get_upcoming_deadlines",
                                !.limit = limit, !.hour = hour, !.ok = ok,
                                !.result = GetUpcomingDeadlines(items, limit, hour, ok)]
    /\ QueryFrame

NextDeadlines ==
    \/ DeadlinesCall
    \/ Finish

SpecDeadlines == InitDeadlines /\ [][NextDeadlines]_vars

\* ------------------------------------------------ completed today
STATUS_COMPLETED == <<"C","o","m","p","l","e","t","e","d">>

\* notion_integration.py:396-405: the store's filter, Status equals "Done"
\* or Status equals "Completed"
DoneResults(its) ==
    SelectSeq(QueryResults(its),
              LAMBDA i : its[i].status \in { STATUS_DONE, STATUS_COMPLETED })

\* notion_integration.py:383-426: the Done pages whose last_edited_time, a
\* UTC timestamp counted here in hours, starts with the date that
\* datetime.now() shows, the local day today; [] on failure
GetCompletedToday(its, ok) ==
    IF ok
    THEN SelectSeq(DoneResults(its),
                   LAMBDA i : its[i].last_edited_time \div HoursPerDay = today)
    ELSE <<>>

\* the hours, UTC, at which the pages were edited last
EditedHours == { -30, -3, 0, 20 }

EditedPages ==
    { [status |-> st, priority |-> "High", category |-> "Health",
       archived |-> FALSE, last_edited_time |-> h]
      : st \in { STATUS_ACTIVE, STATUS_DONE, STATUS_COMPLETED, DoneLower },
        h \in EditedHours }

\* the hours by which the clock of the process is ahead of UTC
ServerOffsets == { -5, 0, 3 }

InitCompleted ==
    /\ InitProcess
    /\ \E n \in 0..MaxStore : items \in [1..n -> EditedPages]

\* notion_integration.py:383: one call get_completed_today() at the local
\* hour of the local day today, on a machine whose clock is tz hours ahead
\* of UTC
CompletedCall ==
    /\ Idle
    /\ \E hour \in Hours, tz \in ServerOffsets, ok \in BOOLEAN :
          ev' = [NoEvent EXCEPT !.kind = "call",
                                !.handler = "get_completed_today",
                                !.hour = hour, !.tz = tz, !.ok = ok,
                                !.result = GetCompletedToday(items, ok)]
    /\ QueryFrame

NextCompleted ==
    \/ CompletedCall
    \/ Finish

SpecCompleted == InitCompleted /\ [][NextCompleted]_vars

\* ------------------------------------------------ focus, replies failing
\* bot.py:1140-1162 and 1187: focus_complete when reply_text raises at the
\* first message of the completion branch.  The two pops, the store write and
\* the award are done; the exception leaves the handler, nothing is replayed
\* and the conversation is not moved out of FOCUS_ACTIVE.
FocusCompleteRaised(S, u, text) ==
    IF ~IsDonePhrase(text) THEN {}
    ELSE LET session == IF u \in DOMAIN S.sessions THEN { S.sessions[u] } ELSE {}
             S1 == Observe([S EXCEPT !.sessions = Pop(@, u), !.backlog = Pop(@, u)],
                           "raised", TRUE)
         IN  IF session # {}
             THEN { AwardXp(UpdateItem(S1, CHOOSE i \in session : TRUE, "status",
                                       STATUS_DONE, ok),
                            u, XP_FOCUS_COMPLETED)
                    : ok \in BOOLEAN }
             ELSE { S1 }

\* bot.py:1228: a text in FOCUS_ACTIVE, its replies delivered or not
FocusText ==
    /\ Idle
    /\ \E u \in Users, text \in Texts :
        /\ conv[u] = "active"
        /\ IsDonePhrase(text) \/ Len(Get(focus_pending, u, <<>>)) < MaxBacklog
        /\ \E S \in FocusComplete(Begin, u, text) \cup FocusCompleteRaised(Begin, u, text) :
               Commit(u, "text", "focus_complete", text, S)

NextFocus ==
    \/ FocusText
    \/ FocusCommand
    \/ FocusButton
    \/ CancelCommand
    \/ Finish

SpecFocus == Init /\ [][NextFocus]_vars

\* ------------------------------------------------ overlapping updates
\* Handlers are coroutines: a handler runs from one await to the next without
\* interruption, and while it is suspended the handler of another update may
\* run.  flight holds the suspended handlers; pc names the await a handler is
\* suspended at, queue the texts it has still to replay, seen the XP total of
\* its user when it was suspended.

\* bot.py:1136 user_id = update.effective_user.id: the key of every dictionary
UserId_Shared(u) == "u1"

UserId(u) == u

\* bot.py:1141 and 1212: _focus_sessions.pop(user_id, None)
PopSession(sessions, k) == Pop(sessions, k)

\* add_xp that writes the total the handler saw at its last await plus what
\* this call grants
Award_FromSnapshot(xp, k, amount, seen) ==
    [xp EXCEPT ![k] = [AddXp(@, amount) EXCEPT
                          !.xp = seen + (AddXp(xp[k], amount).xp - xp[k].xp)]]

\* bot.py:144-173: add_xp has no await; it reads and writes _user_xp[user_id]
\* in one piece
Award(xp, k, amount, seen) == [xp EXCEPT ![k] = AddXp(@, amount)]

\* bot.py:162-173: what one call of add_xp grants, the amount and the bonus
Granted(rec, amount) == AddXp(rec, amount).xp - rec.xp

OverlapTexts == { <<"d","o","n","e">>, <<"g","y","m">>, <<"r","u","n">> }

\* the texts queued in the session before the updates start to overlap
OverlapBacklogs ==
    { <<>>, << <<"g","y","m">> >>, << <<"g","y","m">>, <<"r","u","n">> >> }

\* u1 is fresh, u3 has acted on seven days in a row, today included
OverlapXp ==
    [u \in Everyone |->
        IF u = "u3" THEN [xp |-> 85, last_action |-> {0}, streak |-> 7]
        ELSE [xp |-> 0, last_action |-> {}, streak |-> 0]]

\* u1 is in a focus session on the first page, u3 is not focusing
InitOverlap ==
    /\ items = << NewItem("Health", "High") >>
    /\ habits = <<>>
    /\ pending_deletes = Empty
    /\ conv = [u \in Everyone |-> IF u = "u1" THEN "active" ELSE "none"]
    /\ focus_tasks = [u \in Everyone |-> IF u = "u1" THEN << 1 >> ELSE <<>>]
    /\ focus_sessions = [u \in {"u1"} |-> 1]
    /\ \E b \in OverlapBacklogs :
          focus_pending = IF b = <<>> THEN Empty ELSE [u \in {"u1"} |-> b]
    /\ user_xp = OverlapXp
    /\ request_history = [u \in Everyone |-> <<>>]
    /\ now = 0
    /\ today = 0
    /\ passed = [u \in Everyone |-> <<>>]
    /\ user_data = [u \in Everyone |-> NoData]
    /\ keyboard = {}
    /\ flight = <<>>
    /\ audit = NoAudit
    /\ ev = NoEvent

\* what no handler of this specification touches
OverlapFrame ==
    UNCHANGED << habits, focus_tasks, now, today, passed, user_data,
                 keyboard, ev >>

Suspended(u, handler, pc, queue, seen) ==
    [user |-> u, handler |-> handler, pc |-> pc, queue |-> queue, seen |-> seen]

Without(q, i) == SubSeq(q, 1, i - 1) \o SubSeq(q, i + 1, Len(q))

\* bot.py:1140-1162: a completion phrase runs up to the first reply
BeginCompletion(u) ==
    LET k == UserId(u)
        session == IF k \in DOMAIN focus_sessions THEN { focus_sessions[k] } ELSE {}
        pending_tasks == Get(focus_pending, k, <<>>)
    IN  /\ focus_sessions' = PopSession(focus_sessions, k)
        /\ focus_pending' = Pop(focus_pending, k)
        /\ IF session # {}
           THEN \E ok \in BOOLEAN :
                  LET page_id == CHOOSE i \in session : TRUE
                  IN  /\ items' = IF ok
                                  THEN [items EXCEPT ![page_id].status = STATUS_DONE]
                                  ELSE items
                      /\ user_xp' = Award(user_xp, k, XP_FOCUS_COMPLETED, user_xp[k].xp)
                      /\ audit' = [audit EXCEPT
                             !.actor = u, !.started = @ + 1,
                             !.marked[u] = @ + 1, !.focus_awards[u] = @ + 1,
                             !.granted[u] = @ + Granted(user_xp[k], XP_FOCUS_COMPLETED),
                             !.popped[u] = pending_tasks]
                      /\ flight' = Append(flight,
                             Suspended(u, "focus_complete", "completion_reply",
                                       pending_tasks, user_xp'[k].xp))
           ELSE /\ UNCHANGED << items, user_xp >>
                /\ audit' = [audit EXCEPT !.actor = u, !.started = @ + 1,
                                          !.refused[u] = @ + 1]
                /\ flight' = Append(flight,
                       Suspended(u, "focus_complete", "no_session_reply", <<>>,
                                 user_xp[k].xp))
        /\ UNCHANGED << conv, request_history >>

\* bot.py:1191-1205: any other text in FOCUS_ACTIVE is appended to the backlog
BeginQueueing(u, text) ==
    LET k == UserId(u)
    IN  /\ focus_pending' = Put(focus_pending, k,
                                Append(Get(focus_pending, k, <<>>), text))
        /\ audit' = [audit EXCEPT !.actor = u, !.started = @ + 1]
        /\ flight' = Append(flight,
               Suspended(u, "focus_complete", "queued_reply", <<>>, user_xp[k].xp))
        /\ UNCHANGED << items, conv, focus_sessions, user_xp, request_history >>

\* bot.py:83-97 and 558-567: the limiter, then handle_text up to its first
\* await, the typing indicator
BeginText(u) ==
    LET k == UserId(u)
        recent == SelectSeq(request_history[k], LAMBDA t : now - t < RATE_LIMIT_WINDOW)
        limited == Len(recent) >= MAX_REQUESTS_PER_WINDOW
    IN  /\ request_history' =
               [request_history EXCEPT ![k] = IF limited THEN recent
                                              ELSE Append(recent, now)]
        /\ audit' = [audit EXCEPT !.actor = u, !.started = @ + 1]
        /\ flight' = Append(flight,
               Suspended(u, "handle_text",
                         IF limited THEN "limited_reply" ELSE "typing",
                         <<>>, user_xp[k].xp))
        /\ UNCHANGED << items, conv, focus_sessions, focus_pending, user_xp >>

\* bot.py:1228 and 1383: a text arrives and its handler runs to its first
\* await; the conversation state of the moment decides which handler
TextArrives ==
    /\ audit.started < MaxOverlap
    /\ \E u \in ALLOWED_USER_IDS, text \in OverlapTexts :
          IF conv[u] = "active"
          THEN IF IsDonePhrase(text) THEN BeginCompletion(u)
               ELSE BeginQueueing(u, text)
          ELSE BeginText(u)
    /\ UNCHANGED pending_deletes
    /\ OverlapFrame

\* bot.py:1209-1220: /cancel in FOCUS_ACTIVE runs up to its reply
CancelArrives ==
    /\ audit.started < MaxOverlap
    /\ \E u \in ALLOWED_USER_IDS :
          /\ conv[u] = "active"
          /\ LET k == UserId(u)
             IN  /\ focus_sessions' = PopSession(focus_sessions, k)
                 /\ focus_pending' = Pop(focus_pending, k)
                 /\ flight' = Append(flight,
                        Suspended(u, "focus_cancel", "cancel_reply", <<>>,
                                  user_xp[k].xp))
          /\ audit' = [audit EXCEPT !.actor = u, !.started = @ + 1]
    /\ UNCHANGED << items, conv, user_xp, request_history, pending_deletes >>
    /\ OverlapFrame

\* the handler flight[i] returns state: the ConversationHandler stores it
Returns(i, state) ==
    /\ conv' = [conv EXCEPT ![flight[i].user] = state]
    /\ flight' = Without(flight, i)

\* bot.py:1165 and 1185: the loop goes on to the text after the one just
\* replayed, or to the closing reply
NextQueued(i) ==
    LET rest == Tail(flight[i].queue)
        u == flight[i].user
    IN  /\ flight' = [flight EXCEPT ![i].queue = rest,
                         ![i].pc = IF rest = <<>> THEN "breather_reply" ELSE "categorize",
                         ![i].seen = user_xp'[UserId(u)].xp]
        /\ audit' = [audit EXCEPT !.actor = u,
                        !.replayed[u] = IF rest = <<>> THEN @ ELSE Append(@, Head(rest))]

\* bot.py:1162-1187: focus_complete goes on from the await it is suspended at
ResumeCompletion(i) ==
    LET u == flight[i].user
        k == UserId(u)
    IN  CASE flight[i].pc = "completion_reply" ->
               \* 1162: the reply is delivered, or reply_text raises and the
               \* handler ends there, the conversation state kept
               \/ IF flight[i].queue = <<>>
                  THEN /\ Returns(i, "none")
                       /\ audit' = [audit EXCEPT !.actor = u, !.completed[u] = TRUE]
                       /\ UNCHANGED << items, user_xp >>
                  ELSE /\ flight' = [flight EXCEPT ![i].pc = "categorize",
                                                   ![i].seen = user_xp[k].xp]
                       /\ audit' = [audit EXCEPT !.actor = u,
                                       !.replayed[u] = Append(@, Head(flight[i].queue))]
                       /\ UNCHANGED << items, user_xp, conv >>
               \/ /\ flight' = Without(flight, i)
                  /\ audit' = [audit EXCEPT !.actor = u, !.completed[u] = TRUE]
                  /\ UNCHANGED << items, user_xp, conv >>
          [] flight[i].pc = "categorize" ->
               \E c \in CatReplies, ok \in BOOLEAN :
                  LET result == CategorizeMessage(c)
                  IN  /\ UNCHANGED << user_xp, conv >>
                      /\ IF ~result.complete
                         THEN /\ flight' = [flight EXCEPT ![i].pc = "failed_reply",
                                                          ![i].seen = user_xp[k].xp]
                              /\ audit' = [audit EXCEPT !.actor = u]
                              /\ UNCHANGED items
                         ELSE IF ok
                         THEN /\ items' = Append(items, NewItem(result.category,
                                                                result.priority))
                              /\ flight' = [flight EXCEPT ![i].pc = "added_reply",
                                                          ![i].seen = user_xp[k].xp]
                              /\ audit' = [audit EXCEPT !.actor = u]
                         ELSE /\ UNCHANGED items
                              /\ NextQueued(i)
          [] flight[i].pc = "added_reply" ->
               /\ user_xp' = Award(user_xp, k, XP_TASK_ADDED, flight[i].seen)
               /\ LET rest == Tail(flight[i].queue)
                  IN  /\ flight' = [flight EXCEPT ![i].queue = rest,
                             ![i].pc = IF rest = <<>> THEN "breather_reply"
                                       ELSE "categorize",
                             ![i].seen = user_xp'[k].xp]
                      /\ audit' = [audit EXCEPT !.actor = u,
                             !.granted[u] = @ + Granted(user_xp[k], XP_TASK_ADDED),
                             !.overtaken[u] = IF flight[i].seen # user_xp[k].xp
                                              THEN @ + 1 ELSE @,
                             !.replayed[u] = IF rest = <<>> THEN @
                                             ELSE Append(@, Head(rest))]
               /\ UNCHANGED << items, conv >>
          [] flight[i].pc = "failed_reply" ->
               /\ UNCHANGED << items, user_xp, conv >>
               /\ NextQueued(i)
          [] flight[i].pc = "breather_reply" ->
               /\ Returns(i, "none")
               /\ audit' = [audit EXCEPT !.actor = u, !.completed[u] = TRUE]
               /\ UNCHANGED << items, user_xp >>
          [] flight[i].pc = "no_session_reply" ->
               /\ Returns(i, "none")
               /\ audit' = [audit EXCEPT !.actor = u]
               /\ UNCHANGED << items, user_xp >>
          [] flight[i].pc = "queued_reply" ->
               /\ Returns(i, "active")
               /\ audit' = [audit EXCEPT !.actor = u]
               /\ UNCHANGED << items, user_xp >>

\* a suspended focus_complete or focus_cancel is resumed
FocusResumes ==
    /\ \E i \in DOMAIN flight :
          \/ /\ flight[i].handler = "focus_complete"
             /\ ResumeCompletion(i)
          \/ /\ flight[i].handler = "focus_cancel"
             /\ Returns(i, "none")
             /\ audit' = [audit EXCEPT !.actor = flight[i].user]
             /\ UNCHANGED << items, user_xp >>
    /\ UNCHANGED << focus_sessions, focus_pending, request_history,
                     pending_deletes >>
    /\ OverlapFrame

\* bot.py:567-652, 790: handle_text goes on from the await it is suspended
\* at.  The texts here are not a YES, so a pending confirmation is dropped;
\* the classifiers either find a request to delete a page or take the text
\* for a new item
TextResumes ==
    /\ \E i \in DOMAIN flight :
          /\ flight[i].handler = "handle_text"
          /\ LET u == flight[i].user
                 k == UserId(u)
                 at(pc) == [flight EXCEPT ![i].pc = pc, ![i].seen = user_xp[k].xp]
             IN  CASE flight[i].pc = "typing" ->
                        /\ pending_deletes' = Pop(pending_deletes, k)
                        /\ flight' = at(IF k \in DOMAIN pending_deletes
                                        THEN "cancelled_reply" ELSE "classify")
                        /\ audit' = [audit EXCEPT !.actor = u]
                        /\ UNCHANGED << items, user_xp >>
                   [] flight[i].pc = "classify" ->
                        \/ \E page_id \in DOMAIN items :
                              /\ pending_deletes' = Put(pending_deletes, k, page_id)
                              /\ flight' = at("confirm_reply")
                              /\ audit' = [audit EXCEPT !.actor = u]
                              /\ UNCHANGED << items, user_xp >>
                        \/ \E c \in CatReplies, ok \in BOOLEAN :
                              LET result == CategorizeMessage(c)
                              IN  /\ items' = IF result.complete /\ ok
                                              THEN Append(items,
                                                       NewItem(result.category,
                                                               result.priority))
                                              ELSE items
                                  /\ flight' = at(IF result.complete /\ ok
                                                  THEN "created_reply"
                                                  ELSE "error_reply")
                                  /\ audit' = [audit EXCEPT !.actor = u]
                                  /\ UNCHANGED << user_xp, pending_deletes >>
                   [] flight[i].pc = "created_reply" ->
                        /\ user_xp' = Award(user_xp, k, XP_TASK_ADDED, flight[i].seen)
                        /\ audit' = [audit EXCEPT !.actor = u,
                               !.granted[u] = @ + Granted(user_xp[k], XP_TASK_ADDED),
                               !.overtaken[u] = IF flight[i].seen # user_xp[k].xp
                                                THEN @ + 1 ELSE @]
                        /\ flight' = Without(flight, i)
                        /\ UNCHANGED << items, pending_deletes >>
                   [] flight[i].pc \in { "error_reply", "limited_reply",
                                         "cancelled_reply", "confirm_reply" } ->
                        /\ audit' = [audit EXCEPT !.actor = u]
                        /\ flight' = Without(flight, i)
                        /\ UNCHANGED << items, user_xp, pending_deletes >>
    /\ UNCHANGED << conv, focus_sessions, focus_pending, request_history >>
    /\ OverlapFrame

NextOverlap ==
    \/ TextArrives
    \/ CancelArrives
    \/ FocusResumes
    \/ TextResumes

SpecOverlap == InitOverlap /\ [][NextOverlap]_vars

\* ================================================================ properties
\* The properties speak about the update that was handled last (ev) and
\* about the state it left behind.

\* the calls the last update made to one of ops, in order
CallsTo(ops) == SelectSeq(ev.calls, LAMBDA c : c.op \in ops)

Called(op) == CallsTo({op}) # <<>>

Replied(tag) == \E i \in DOMAIN ev.replies : ev.replies[i] = tag

Range(q) == { q[i] : i \in DOMAIN q }

CLASSIFIER_CALLS == { "parse_habit_intent", "parse_management_intent",
                      "categorize_message", "ai_match_task" }

CREATE_UPDATE_CALLS == { "add_to_life_areas", "add_to_brain_dump",
                         "add_to_brain_dump_with_file", "update_item",
                         "log_progress", "create_habit", "complete_habit" }

STORE_WRITES == CREATE_UPDATE_CALLS \cup { "delete_item" }

MANAGE_INTENTS == { "delete", "complete", "update_priority" }

KNOWN_INTENTS == MANAGE_INTENTS \cup { "query", "none" }

\* the update in hand was handled: the rate gate did not turn it away
Handled == ev.kind # "none" /\ ev.obs.gate \notin { "limited", "unauthorized" }

HadPending == ev.pendingBefore # {}

\* the user's staged delete after the update, as a set
PendingAfter ==
    IF ev.user \in DOMAIN pending_deletes THEN { pending_deletes[ev.user] } ELSE {}

\* YES in any letter case, or one of the two Arabic confirmations
IsYes(text) ==
    \/ /\ Len(text) = 3
       /\ text[1] \in {"Y", "y"}
       /\ text[2] \in {"E", "e"}
       /\ text[3] \in {"S", "s"}
    \/ text \in { <<"NAAM">>, <<"EY">> }

\* the branches of the resolver, by what they do
HabitRan == Called("create_habit") \/ Called("get_habits") \/ Replied("which_habit")
ManagementRan == Called("get_active_items") \/ Called("get_items_by_category")
CreateRan == Called("categorize_message")

\* ---------------------------------------------------------------- C1
\* C1: whenever a user has a PendingConfirmation, the next text message of
\* that user removes it, whatever the text and whatever session state the
\* user is in: once the text has been handled the user has no
\* PendingConfirmation.
C1_TextClearsPending ==
    (ev.kind = "text" /\ Handled /\ HadPending) => PendingAfter = {}

\* ---------------------------------------------------------------- C2
\* C2: when a user with a PendingConfirmation for item X sends a confirming
\* text (YES in any letter case), delete_item is called exactly once, with X
\* and with no other id, and the PendingConfirmation is removed.
C2_ConfirmArchivesOnce ==
    (ev.kind = "text" /\ Handled /\ HadPending /\ IsYes(ev.text)) =>
        /\ Len(CallsTo({"delete_item"})) = 1
        /\ \A i \in DOMAIN CallsTo({"delete_item"}) :
               CallsTo({"delete_item"})[i].arg \in ev.pendingBefore
        /\ PendingAfter = {}

\* C2 for the texts that handle_text receives (the user is not in an active
\* focus session)
C2_InHandleText ==
    (ev.handler = "handle_text" /\ Handled /\ HadPending /\ IsYes(ev.text)) =>
        /\ Len(CallsTo({"delete_item"})) = 1
        /\ CallsTo({"delete_item"})[1].arg \in ev.pendingBefore
        /\ CallsTo(STORE_WRITES) = CallsTo({"delete_item"})
        /\ PendingAfter = {}

\* ---------------------------------------------------------------- C3
\* C3: while a user has a PendingConfirmation, handling a text of that user
\* calls no classifier and makes no create or update on the store; the only
\* store write it can make is the archive of the staged id, and a
\* non-confirming text makes no store write at all.
C3_PendingBypassesClassification ==
    (ev.kind = "text" /\ Handled /\ HadPending) =>
        /\ CallsTo(CLASSIFIER_CALLS) = <<>>
        /\ CallsTo(CREATE_UPDATE_CALLS) = <<>>
        /\ \A i \in DOMAIN CallsTo(STORE_WRITES) :
               /\ CallsTo(STORE_WRITES)[i].op = "delete_item"
               /\ CallsTo(STORE_WRITES)[i].arg \in ev.pendingBefore
        /\ ~IsYes(ev.text) => CallsTo(STORE_WRITES) = <<>>

\* C3 for the texts that handle_text receives
C3_InHandleText ==
    (ev.handler = "handle_text" /\ Handled /\ HadPending) =>
        /\ CallsTo(CLASSIFIER_CALLS) = <<>>
        /\ CallsTo(CREATE_UPDATE_CALLS) = <<>>
        /\ \A i \in DOMAIN CallsTo(STORE_WRITES) :
               /\ CallsTo(STORE_WRITES)[i].op = "delete_item"
               /\ CallsTo(STORE_WRITES)[i].arg \in ev.pendingBefore
        /\ ~IsYes(ev.text) => CallsTo(STORE_WRITES) = <<>>

\* ---------------------------------------------------------------- C4
\* C4: a message of any kind (voice, photo, document or text) from a user
\* who has a PendingConfirmation, and that is not a confirmation, clears
\* the entry without archiving the item.
C4_AnyMessageClearsPending ==
    (ev.kind \in {"text", "voice", "photo", "document"} /\ Handled
         /\ HadPending /\ ~IsYes(ev.text)) =>
        /\ PendingAfter = {}
        /\ ~Called("delete_item")

\* ---------------------------------------------------------------- C5
\* the order of the branches: the management classifier is consulted only
\* after the habit classifier said neither create_habit nor complete_habit,
\* an Item is created only after the management classifier said none, and
\* exactly one of the three branches runs
BranchOrder ==
    /\ Called("parse_management_intent") =>
           /\ Called("parse_habit_intent")
           /\ ev.obs.habit \notin {"create_habit", "complete_habit"}
    /\ Called("add_to_life_areas") =>
           /\ Called("parse_management_intent")
           /\ ev.obs.intent = "none"
    /\ HabitRan => ev.obs.habit \in {"create_habit", "complete_habit"}
    /\ ManagementRan => ev.obs.intent # "none"
    /\ CreateRan => ev.obs.intent = "none"
    /\ \/ HabitRan /\ ~ManagementRan /\ ~CreateRan
       \/ ~HabitRan /\ ManagementRan /\ ~CreateRan
       \/ ~HabitRan /\ ~ManagementRan /\ CreateRan

\* C5 as stated: for each text utterance of a user without a
\* PendingConfirmation exactly one of the branches habit, management,
\* create-new runs, chosen in that order.
C5_EveryTextResolved ==
    (ev.kind = "text" /\ Handled /\ ~HadPending) => BranchOrder

\* C5 as amended: for each text utterance of a user who has no
\* PendingConfirmation and no active focus session, exactly one of the
\* branches habit, management, create-new runs, chosen in that order.
C5_BranchOrderOutsideFocus ==
    (ev.kind = "text" /\ Handled /\ ~HadPending /\ ev.convBefore # "active")
        => BranchOrder

C5_Witness ==
    /\ ev.handler = "handle_text"
    /\ ~HadPending
    /\ ev.obs.habit = "none"
    /\ ev.obs.intent = "complete"
    /\ ManagementRan
    /\ Replied("marked_done")

\* ---------------------------------------------------------------- C6
\* C6: every failure of management-intent classification (provider error,
\* non-200 status, non-JSON payload, or a JSON reply whose intent is missing
\* or is none of delete, update_priority, complete, query, none) makes the
\* utterance a plain new item: create-new runs and no management action is
\* taken.
C6_FailedIntentMeansCreate ==
    (Handled /\ Called("parse_management_intent")
         /\ (ev.obs.mgmt # "json" \/ ev.obs.intent \notin KNOWN_INTENTS)) =>
        /\ CreateRan
        /\ ~ManagementRan
        /\ ~Called("ai_match_task")

\* ---------------------------------------------------------------- C7
\* the content of the utterance is in the store: an Item or a Brain Dump
\* entry was written
ContentStored ==
    \E i \in DOMAIN ev.calls :
        /\ ev.calls[i].op \in {"add_to_life_areas", "add_to_brain_dump"}
        /\ ev.calls[i].ok

ToldPreserved ==
    Replied("added") \/ Replied("added_to_brain_dump")
        \/ Replied("error_added_to_brain_dump")

ToldNotSaved == Replied("critical_error")

\* C7: for every text utterance that reaches create-new, when handling ends
\* the content is stored as an Item or as a Brain Dump entry, or else the
\* user was told it was not saved; the user is never told the content was
\* preserved when neither write succeeded.
C7_NoSilentDrop ==
    (ev.handler = "handle_text" /\ Handled /\ CreateRan) =>
        /\ ContentStored \/ ToldNotSaved
        /\ ~ContentStored => ~ToldPreserved

\* ---------------------------------------------------------------- C8
\* the matcher gave no usable answer: it failed, or named index 0 or an
\* index outside 1..n
NoUsableMatch ==
    /\ Called("ai_match_task")
    /\ \/ ev.obs.match = {}
       \/ \E k \in ev.obs.match : k = 0 \/ k \notin 1..Len(ev.obs.active)

\* C8: a delete, complete or update_priority intent acts only on a member of
\* the active-item list fetched for that utterance; when the matcher returns
\* index 0, an index outside 1..n, or fails, no item is mutated, no
\* PendingConfirmation is staged and the user gets the not-found response.
C8_ActsOnlyOnListedItem ==
    (Handled /\ ev.obs.fetched /\ ev.obs.intent \in MANAGE_INTENTS) =>
        /\ Len(items) = Len(ev.itemsBefore)
        /\ \A i \in DOMAIN items :
               items[i] # ev.itemsBefore[i] => i \in Range(ev.obs.active)
        /\ \A i \in DOMAIN CallsTo({"update_item", "delete_item"}) :
               CallsTo({"update_item", "delete_item"})[i].arg
                   \in Range(ev.obs.active)
        /\ PendingAfter # ev.pendingBefore =>
               PendingAfter \subseteq Range(ev.obs.active)
        /\ NoUsableMatch =>
               /\ items = ev.itemsBefore
               /\ PendingAfter = ev.pendingBefore
               /\ CallsTo(STORE_WRITES) = <<>>
               /\ Replied("not_found")

C8_Witness ==
    /\ ev.handler = "handle_text"
    /\ ev.obs.intent = "delete"
    /\ Len(ev.itemsBefore) > Len(ev.obs.active)
    /\ ev.obs.match = { Len(ev.obs.active) + 1 }
    /\ Replied("not_found")

\* ---------------------------------------------------------------- C9
\* C9: a semantic match that the matcher reports with low confidence is
\* treated as no match: the user gets the not-found response, no item is
\* mutated and no PendingConfirmation is staged.
C9_LowConfidenceIsNoMatch ==
    (Handled /\ ev.obs.intent \in MANAGE_INTENTS /\ Called("ai_match_task")
         /\ ev.obs.match # {} /\ ev.obs.confidence = "low") =>
        /\ Replied("not_found")
        /\ items = ev.itemsBefore
        /\ PendingAfter = ev.pendingBefore

SameLetter(a, b) ==
    a = b \/ \E k \in DOMAIN LowerAlpha : {a, b} = {LowerAlpha[k], UpperAlpha[k]}

\* text is one of the completion phrases, in any letter case
CompletionPhrase(text) ==
    \E w \in DONE_WORDS :
        /\ Len(w) = Len(text)
        /\ \A i \in DOMAIN w : SameLetter(w[i], text[i])

\* the user's focus session after the update, as a set
SessionAfter ==
    IF ev.user \in DOMAIN focus_sessions THEN { focus_sessions[ev.user] } ELSE {}

BacklogAfter == Get(focus_pending, ev.user, <<>>)

RepliesOf(tags) == SelectSeq(ev.replies, LAMBDA r : r \in tags)

\* the calls of the last update to one of ops that succeeded
SucceededTo(ops) == SelectSeq(ev.calls, LAMBDA c : c.op \in ops /\ c.ok)

\* the last update completed a focus session
FocusCompleted ==
    /\ ev.kind = "text"
    /\ ev.convBefore = "active"
    /\ ev.sessionBefore # {}
    /\ CompletionPhrase(ev.text)

\* C12: on focus completion every queued backlog text is replayed through
\* categorize-and-create and each one produces its own report to the user:
\* a success report when its item is created and a failure report when it
\* is not, add_to_life_areas returning None included.
C12_EveryReplayReported ==
    FocusCompleted =>
        /\ Len(CallsTo({"categorize_message"})) = Len(ev.backlogBefore)
        /\ Len(RepliesOf({"queued_added"}))
               = Len(SucceededTo({"add_to_life_areas"}))
        /\ Len(RepliesOf({"queued_added", "queued_failed"}))
               = Len(ev.backlogBefore)
        /\ BacklogAfter = <<>>

\* ---------------------------------------------------------------- C13
\* the store writes that carry a reward: an item creation, a completion of
\* a task (by command or by focus), a completion of a habit
REWARDED_WRITES == { "add_to_life_areas", "update_item", "complete_habit" }

\* C13: XP is awarded for an operation only if that operation's store write
\* succeeded: no update increases a user's XP for an item creation, a task
\* completion, a habit completion or a focus completion whose store write
\* returned failure.
C13_XpOnlyOnSuccessfulWrite ==
    ev.kind # "none" =>
        /\ Len(CallsTo({"add_xp"})) <= Len(SucceededTo(REWARDED_WRITES))
        /\ user_xp[ev.user].xp # ev.xpBefore =>
               SucceededTo(REWARDED_WRITES) # <<>>

\* ---------------------------------------------------------------- C14
\* C14: every Item successfully created on the create-new path, whether the
\* utterance was typed or transcribed from voice, awards its user the
\* creation reward of 5 XP (plus the streak bonus of 50 when due).  Stated
\* for the updates whose handling did not end in the handler's error branch.
C14_CreationAwardsFive ==
    (ev.handler \in {"handle_text", "handle_voice"} /\ Handled
         /\ ev.obs.intent = "none"
         /\ SucceededTo({"add_to_life_areas"}) # <<>>
         /\ ~Replied("error_added_to_brain_dump")
         /\ ~Replied("critical_error")) =>
        /\ \E i \in DOMAIN CallsTo({"add_xp"}) : CallsTo({"add_xp"})[i].arg = 5
        /\ user_xp[ev.user].xp \in { ev.xpBefore + 5, ev.xpBefore + 55 }

\* C14 for typed utterances whose confirmation reply was sent
C14_TypedAndConfirmed ==
    (ev.handler = "handle_text" /\ Handled /\ ev.obs.intent = "none"
         /\ SucceededTo({"add_to_life_areas"}) # <<>> /\ Replied("added")) =>
        /\ Len(CallsTo({"add_xp"})) = 1
        /\ CallsTo({"add_xp"})[1].arg = 5
        /\ user_xp[ev.user].xp \in { ev.xpBefore + 5, ev.xpBefore + 55 }

\* ---------------------------------------------------------------- C15
\* C15: add_xp updates the streak from calendar days only: with no prior
\* action the streak becomes 1; when the prior action was exactly one day
\* before today it grows by 1; when it was today it is unchanged; when it
\* was two or more days before today it becomes 1; and after every call
\* last_action is today.
C15_StreakFromCalendarDays ==
    ev.handler = "add_xp" =>
        LET rec == user_xp[ev.user]
        IN  /\ rec.last_action = {today}
            /\ ev.lastBefore = {} => rec.streak = 1
            /\ ev.lastBefore = {today - 1} => rec.streak = ev.streakBefore + 1
            /\ ev.lastBefore = {today} => rec.streak = ev.streakBefore
            /\ (\E d \in ev.lastBefore : today - d >= 2) => rec.streak = 1

C15_Witness ==
    /\ ev.handler = "add_xp"
    /\ ev.lastBefore = {today - 3}
    /\ ev.streakBefore = 2
    /\ user_xp[ev.user].streak = 1

\* ---------------------------------------------------------------- C16
\* n is a positive multiple of 7
PositiveMultipleOfSeven(n) == \E k \in 1..(MaxDay + 1) : n = 7 * k

\* C16: each add_xp(user, amount) call increases the user's XP by exactly
\* amount, plus 50 when and only when the streak after that call's streak
\* update is a positive multiple of 7; repeated calls on the same day
\* included.
C16_AmountPlusStreakBonus ==
    ev.handler = "add_xp" =>
        user_xp[ev.user].xp =
            ev.xpBefore + ev.amount
                + (IF PositiveMultipleOfSeven(user_xp[ev.user].streak)
                   THEN 50 ELSE 0)

C16_Witness ==
    /\ ev.handler = "add_xp"
    /\ ev.lastBefore = {today}
    /\ ev.streakBefore = 7
    /\ user_xp[ev.user].xp = ev.xpBefore + ev.amount + 50

\* ---------------------------------------------------------------- C17
\* C17: in every reachable state every user's XP and streak are integers
\* >= 0, and the streak is >= 1 exactly when last_action is present, for any
\* reward amount that classification supplies or that is read from the
\* habit store.
C17_LedgerNonNegative ==
    \A u \in Users :
        /\ user_xp[u].xp \in Nat
        /\ user_xp[u].streak \in Nat
        /\ user_xp[u].streak >= 1 <=> user_xp[u].last_action # {}

\* C17 without the reward amounts of habits: the streak part
C17_StreakMatchesLastAction ==
    \A u \in Users :
        /\ user_xp[u].streak \in Nat
        /\ user_xp[u].streak >= 1 <=> user_xp[u].last_action # {}

\* ---------------------------------------------------------------- C18
\* the thresholds of the claim, in ascending order
CLAIMED_THRESHOLDS == << 0, 50, 150, 350, 600, 1000, 2000, 5000 >>

\* C18: get_level(xp) returns the 1-based index and title of the highest
\* threshold in {0,50,150,350,600,1000,2000,5000} that does not exceed xp:
\* for every xp >= 0 the level is in 1..8 and never 0, it is non-decreasing
\* in xp, level(49) = 1, level(50) = 2 and level(5000) = level(5001) = 8.
C18_LevelIsHighestThreshold ==
    (ev.handler = "stats_command" /\ Handled /\ ev.xpBefore >= 0) =>
        LET xp == ev.xpBefore
            level == ev.obs.level
        IN  /\ level \in 1..8
            /\ CLAIMED_THRESHOLDS[level] <= xp
            /\ level < 8 => xp < CLAIMED_THRESHOLDS[level + 1]
            /\ ev.obs.title = LEVELS[level].name
            /\ xp > 0 => GetLevel(xp - 1).level <= level
            /\ xp = 49 => level = 1
            /\ xp = 50 => level = 2
            /\ xp \in {5000, 5001} => level = 8

C18_Witness ==
    /\ ev.handler = "stats_command"
    /\ ev.xpBefore = 5001
    /\ ev.obs.level = 8
    /\ ev.obs.title = "Legend"

\* ---------------------------------------------------------------- C19
\* the updates of user u the limiter let through in the window [w, w + 60)
PassedInWindow(u, w) ==
    { i \in DOMAIN passed[u] :
        w <= passed[u][i] /\ passed[u][i] < w + RATE_LIMIT_WINDOW }

\* what the limiter keeps of a history at time t
StillRecent(h, t) == SelectSeq(h, LAMBDA x : t - x < RATE_LIMIT_WINDOW)

\* C19: for each user, in any 60-second window at most 20 of the user's
\* events pass the rate limiter to a secured handler; an event over the
\* limit gets the too-many-requests reply, is not recorded as a request, and
\* causes no classifier call, no store call and no change to the pending
\* confirmation, the focus session or the XP record.
C19_AtMostTwentyPerWindow ==
    /\ \A u \in Users : \A w \in 0..MaxNow :
          Cardinality(PassedInWindow(u, w)) <= MAX_REQUESTS_PER_WINDOW
    /\ (ev.kind # "none" /\ ev.obs.gate \in {"pass", "limited"}) =>
          (ev.obs.gate = "limited"
             <=> Len(StillRecent(ev.historyBefore, ev.at))
                     >= MAX_REQUESTS_PER_WINDOW)
    /\ (ev.kind # "none" /\ ev.obs.gate = "limited") =>
          /\ ev.replies = << "too_many_requests" >>
          /\ ev.calls = <<>>
          /\ request_history[ev.user] = StillRecent(ev.historyBefore, ev.at)
          /\ items = ev.itemsBefore
          /\ PendingAfter = ev.pendingBefore
          /\ SessionAfter = ev.sessionBefore
          /\ BacklogAfter = ev.backlogBefore
          /\ conv[ev.user] = ev.convBefore
          /\ user_xp[ev.user] = [xp |-> ev.xpBefore,
                                 last_action |-> ev.lastBefore,
                                 streak |-> ev.streakBefore]

\* a confirmation of a pending deletion is turned away in a window that
\* began before the stored timestamps of the previous window were dropped
C19_Witness ==
    /\ ev.handler = "handle_text"
    /\ ev.obs.gate = "limited"
    /\ IsConfirmation(ev.text)
    /\ ev.pendingBefore # {}
    /\ ev.at > RATE_LIMIT_WINDOW
    /\ Len(passed[ev.user]) > MAX_REQUESTS_PER_WINDOW

\* ---------------------------------------------------------------- C20
\* the update in hand called a classifier or the store, or changed the
\* user's state
Touched ==
    \/ ev.calls # <<>>
    \/ items # ev.itemsBefore
    \/ PendingAfter # ev.pendingBefore
    \/ SessionAfter # ev.sessionBefore
    \/ BacklogAfter # ev.backlogBefore
    \/ conv[ev.user] # ev.convBefore
    \/ user_xp[ev.user].xp # ev.xpBefore

\* C20: every user-triggered operation that can call a classifier or the
\* store or change per-user state passes the rate limiter first; this
\* includes focus-mode text (queueing and the completion replay), focus task
\* selection and focus cancel.
C20_EveryOperationGated ==
    (ev.kind # "none" /\ Touched) => ev.obs.gate = "pass"

\* the same for the handlers registered outside the focus conversation's
\* states and fallbacks
C20_GatedOutsideFocus ==
    (ev.kind # "none" /\ Touched
       /\ ev.handler \notin {"focus_chosen", "focus_complete", "focus_cancel"})
        => ev.obs.gate = "pass"

\* ---------------------------------------------------------------- C21
\* the update in hand left the process state as it was
NothingChanged ==
    /\ ~Touched
    /\ user_data[ev.user] = ev.dataBefore
    /\ keyboard = ev.keyboardBefore
    /\ request_history[ev.user] = ev.historyBefore

\* C21: with a non-empty allow-list, no event of any kind (text, voice,
\* photo, document, command or button press) from a user outside the list
\* produces a response, a classifier or store call, or any change of process
\* state.
C21_StrangersIgnored ==
    (ev.kind # "none" /\ ALLOWED_USER_IDS # {} /\ ev.user \notin ALLOWED_USER_IDS)
        => (ev.replies = <<>> /\ NothingChanged)

\* the same for the events that reach a handler wrapped by secure
C21_StrangersIgnoredBySecured ==
    (ev.kind \in {"text", "voice", "photo", "document", "command"}
       /\ ALLOWED_USER_IDS # {} /\ ev.user \notin ALLOWED_USER_IDS)
        => (ev.obs.gate = "unauthorized" /\ ev.replies = <<>> /\ NothingChanged)

\* ---------------------------------------------------------------- C22
\* a and b are the same word up to letter case
SameWord(a, b) ==
    /\ Len(a) = Len(b)
    /\ \A i \in DOMAIN a : SameLetter(a[i], b[i])

\* the status of item i is done, completed or archived in some letter case
HiddenByStatus(i) ==
    \E w \in { <<"d","o","n","e">>, <<"c","o","m","p","l","e","t","e","d">>,
               <<"a","r","c","h","i","v","e","d">> } :
        SameWord(items[i].status, w)

\* the active items of the store, in the store's order
ActiveIds == SelectSeq([i \in 1..Len(items) |-> i], LAMBDA i : ~HiddenByStatus(i))

\* C22: listActive returns exactly those fetched items whose status,
\* compared case-insensitively, is not done, completed or archived; an item
\* with a missing status or with any other status value is included.
C22_ListActiveFilter ==
    (ev.handler = "get_active_items" /\ ev.ok) => ev.result = ActiveIds

C22_Witness ==
    /\ ev.handler = "get_active_items"
    /\ ev.ok
    /\ Len(items) = 2
    /\ items[1].status = <<"C","O","M","P","L","E","T","E","D">>
    /\ items[2].status = <<>>
    /\ ev.result = << 2 >>

\* ---------------------------------------------------------------- C23
\* C23: for every store content and every category c, listByCategory(c)
\* returns exactly the items of listActive() whose category equals c; an
\* item with a missing, misspelled or Parked status that listActive returns
\* is also returned for its category.
C23_ByCategoryIsActiveOfCategory ==
    (ev.handler = "get_items_by_category" /\ ev.ok) =>
        ev.result = SelectSeq(GetActiveItems(items, TRUE),
                              LAMBDA i : items[i].category = ev.category)

\* listByCategory never returns an item listActive does not return
C23_ByCategoryWithinActive ==
    (ev.handler = "get_items_by_category" /\ ev.ok) =>
        /\ Range(ev.result) \subseteq Range(GetActiveItems(items, TRUE))
        /\ \A i \in Range(ev.result) : items[i].category = ev.category

Prefix(t, n) == [i \in 1..(IF Len(t) < n THEN Len(t) ELSE n) |-> t[i]]

\* the record is the claimed fallback for the message
IsFallback(rec, message_text) ==
    /\ REPLY_KEYS \subseteq DOMAIN rec
    /\ rec.category = "Ideas"
    /\ rec.type = "Idea"
    /\ rec.priority = "Low"
    /\ rec.title = Prefix(message_text, 50)
    /\ rec.summary = message_text

\* the provider gave no JSON object with the five required fields
ProviderFailed ==
    \/ ev.outcome \in { "no_key", "transport_error", "timeout", "non200", "nonjson" }
    \/ ev.outcome = "json" /\ ~(REPLY_KEYS \subseteq DOMAIN ev.result)

\* C25: categorize_message never raises: for every provider outcome (missing
\* key, transport error, timeout, non-200 status, non-JSON content, JSON
\* lacking required fields) it returns a record that has category, type,
\* priority, title and summary, and on each of these failures the record is
\* the fallback category=Ideas, type=Idea, priority=Low, title=first 50
\* characters of the input, summary=the input.
C25_AlwaysFullRecord ==
    ev.handler = "categorize_message" =>
        /\ REPLY_KEYS \subseteq DOMAIN ev.result
        /\ ProviderFailed => IsFallback(ev.result, ev.text)

\* the same for the failures that raise inside categorize_message
C25_FallbackWhenRaised ==
    (ev.handler = "categorize_message" /\ ev.outcome # "json") =>
        IsFallback(ev.result, ev.text)

\* ---------------------------------------------------------------- C26
\* the categories the prompt, the icon table and the cover table name
\* (ai_categorizer.py:19-26, notion_integration.py:19-45)
VOCABULARY ==
    { "Health", "Study", "Personal Projects", "Skills", "Creative", "Shopping",
      "Ideas", "Work", "Finance", "Social", "Personal" }

\* C26: every Item the resolver creates has a category from the agreed
\* vocabulary: a categorization whose category is outside the vocabulary is
\* stored under the default category Ideas.
C26_CategoryFromVocabulary ==
    \A i \in DOMAIN items : items[i].category \in VOCABULARY

\* the fallback record of the categorizer is stored under Ideas
C26_FallbackStoredAsIdeas ==
    \A i \in DOMAIN items : items[i].priority = "Low" => items[i].category = "Ideas"

\* ---------------------------------------------------------------- C27
\* the transcriber returned its bracketed error marker
TranscriptionFailed ==
    /\ ev.handler = "handle_voice"
    /\ Handled
    /\ Len(ev.text) > 0
    /\ ev.text[1] = "["

TitleHits(q) ==
    SelectSeq([i \in 1..Len(items) |-> i],
              LAMBDA i : /\ ~items[i].archived
                         /\ IF ev.exact THEN Contains(items[i].title, q)
                            ELSE Contains(Lower(items[i].title), Lower(q)))

STOPLIST ==
    { <<"t","h","e">>, <<"a">>, <<"a","n">>, <<"m","y">>, <<"t","o">>,
      <<"c","h","a","n","g","e">>, <<"u","p","d","a","t","e">>,
      <<"s","e","t">>, <<"m","a","k","e">>, <<"m","a","r","k">>,
      <<"d","e","l","e","t","e">>, <<"r","e","m","o","v","e">> }

\* the words of the query, lowered
QueryWords(q) == Split(Lower(q))

\* those of them that are longer than 2 characters and not on the stoplist
SignificantWords(q) ==
    SelectSeq(QueryWords(q), LAMBDA w : Len(w) > 2 /\ w \notin STOPLIST)

Tier1 == TitleHits(ev.text)

Tier2 ==
    IF SignificantWords(ev.text) = <<>> THEN <<>>
    ELSE TitleHits(SignificantWords(ev.text)[1])

\* the pages with status Active whose title holds a word of the query that
\* is longer than 2 characters
Tier3 ==
    SelectSeq([i \in 1..Len(items) |-> i],
              LAMBDA i : /\ ~items[i].archived
                         /\ items[i].status = STATUS_ACTIVE
                         /\ \E k \in DOMAIN QueryWords(ev.text) :
                               /\ Len(QueryWords(ev.text)[k]) > 2
                               /\ Contains(Lower(items[i].title),
                                           QueryWords(ev.text)[k]))

\* C28: search returns the results of the first non-empty tier: tier-1
\* results when the full query matches a title as a substring, otherwise
\* tier-2 results when the first non-stoplist token longer than 2 characters
\* matches a title, and tier-3 results only when both earlier tiers are
\* empty.
C28_FirstNonEmptyTier ==
    (ev.handler = "search_items" /\ ev.ok) =>
        ev.result = IF Tier1 # <<>> THEN Tier1
                    ELSE IF Tier2 # <<>> THEN Tier2
                    ELSE Tier3

\* the second tier answers: "my gym" finds a page titled Gym although the
\* full query occurs in no title, and the third tier would give other pages
C28_Witness ==
    /\ ev.handler = "search_items"
    /\ ev.ok
    /\ ev.text = <<"m","y"," ","g","y","m">>
    /\ Tier1 = <<>>
    /\ Tier2 # <<>>
    /\ Tier3 # Tier2
    /\ ev.result = Tier2

\* ---------------------------------------------------------------- C29
\* the active items, as listActive defines them, whose title holds a
\* significant word of the query
Tier3AsClaimed ==
    SelectSeq(ActiveIds,
              LAMBDA i : \E k \in DOMAIN SignificantWords(ev.text) :
                  Contains(Lower(items[i].title), SignificantWords(ev.text)[k]))

\* C29: tier 3 of search returns exactly the active items (active as
\* listActive defines it) whose title contains, case-insensitively, at least
\* one query token longer than 2 characters that is not a stoplist word; a
\* stoplist word in the query such as delete, change or mark never causes a
\* match.
C29_ThirdTierContent ==
    (ev.handler = "search_items" /\ ev.ok /\ Tier1 = <<>> /\ Tier2 = <<>>) =>
        ev.result = Tier3AsClaimed

\* the same for stores whose active pages all carry the status Active and
\* queries without a stoplist word
C29_ThirdTierOnPlainInputs ==
    (ev.handler = "search_items" /\ ev.ok /\ Tier1 = <<>> /\ Tier2 = <<>>
       /\ \A i \in Range(ActiveIds) : items[i].status = STATUS_ACTIVE
       /\ \A k \in DOMAIN QueryWords(ev.text) :
             QueryWords(ev.text)[k] \notin STOPLIST) =>
        ev.result = Tier3AsClaimed

\* ---------------------------------------------------------------- C30
\* an update_priority intent without a new priority reached a matched item
PriorityNotSupplied ==
    /\ Handled
    /\ ev.obs.intent = "update_priority"
    /\ ev.obs.matched # {}
    /\ ev.obs.new_priority = {}

HabitCompleteRan == Handled /\ ev.obs.habit = "complete_habit"

\* the name the classifier handed over
RequestedName == ev.obs.habit_name

\* the active habits whose name contains the requested name or is contained
\* in it, letter case aside
NameMatches ==
    { i \in DOMAIN ev.habitsBefore :
        /\ ev.habitsBefore[i].active
        /\ \/ Contains(Lower(ev.habitsBefore[i].name), Lower(RequestedName))
           \/ Contains(Lower(RequestedName), Lower(ev.habitsBefore[i].name)) }

\* the habit the completion is about: the first match in store order
TargetHabit ==
    IF RequestedName = <<>> \/ NameMatches = {} THEN {}
    ELSE { CHOOSE i \in NameMatches : \A j \in NameMatches : i <= j }

HABIT_EFFECTS == { "complete_habit", "log_progress", "add_xp" }

\* the habit store answered the read and the write of this update
HabitStoreAnswered ==
    \A i \in DOMAIN ev.calls :
        ev.calls[i].op \in { "get_habits", "complete_habit" } => ev.calls[i].ok

\* C31: a complete_habit intent marks completed the first active habit, in
\* store order, whose name contains the requested name or is contained in it
\* (case-insensitively), logs one progress entry and awards that habit's XP
\* reward; when no such habit exists or the requested name is empty, no habit
\* is updated, no progress entry is logged and no XP is awarded.
C31_CompleteFirstMatchingHabit ==
    HabitCompleteRan =>
        IF TargetHabit = {}
        THEN /\ habits = ev.habitsBefore
             /\ CallsTo(HABIT_EFFECTS) = <<>>
             /\ user_xp[ev.user].xp = ev.xpBefore
        ELSE LET t == CHOOSE i \in TargetHabit : TRUE
             IN  IF HabitStoreAnswered
                 THEN /\ habits = [ev.habitsBefore EXCEPT ![t].last_completed = {today}]
                      /\ CallsTo(HABIT_EFFECTS) =
                            << [op |-> "complete_habit", arg |-> t, ok |-> TRUE],
                               [op |-> "log_progress", arg |-> 0, ok |-> TRUE],
                               [op |-> "add_xp", arg |-> ev.habitsBefore[t].xp,
                                ok |-> TRUE] >>
                      /\ user_xp[ev.user].xp >= ev.xpBefore + ev.habitsBefore[t].xp
                 ELSE /\ habits = ev.habitsBefore
                      /\ CallsTo({"log_progress", "add_xp"}) = <<>>

\* two active habits match, under different letter case, and the first is
\* the one completed
C31_Witness ==
    /\ HabitCompleteRan
    /\ Cardinality(NameMatches) >= 2
    /\ Replied("habit_done")
    /\ \E t \in TargetHabit :
          /\ habits[t].last_completed # {}
          /\ ~Contains(ev.habitsBefore[t].name, RequestedName)
          /\ Contains(RequestedName, Lower(ev.habitsBefore[t].name)) = FALSE
    /\ Len(RequestedName) > 3

\* ---------------------------------------------------------------- C32
DeadlinesAsked == ev.kind = "call" /\ ev.handler = "get_upcoming_deadlines"

\* the date properties of a page that carry a date
CarriedDates(item) ==
    { d \in { item.Date, item.DueDate, item.Deadline } : d.kind \in { "day", "time" } }

\* the date lies two whole days or more before the moment of asking
TwoDaysOverdue(d) ==
    IF d.kind = "day" THEN today - d.at >= 2
    ELSE (today * HoursPerDay + ev.hour) - d.at >= 2 * HoursPerDay

\* C32: get_upcoming_deadlines(limit) returns at most limit entries, ordered
\* by non-decreasing days_left, each with days_left >= -1; items without a
\* date and items two or more days overdue are never in the result.
C32_DeadlinesBoundedSortedRecent ==
    DeadlinesAsked =>
        /\ Len(ev.result) <= ev.limit
        /\ \A i, j \in DOMAIN ev.result :
              i < j => ev.result[i].days_left <= ev.result[j].days_left
        /\ \A i \in DOMAIN ev.result :
              /\ ev.result[i].days_left >= -1
              /\ CarriedDates(items[ev.result[i].id]) # {}
              /\ \E d \in CarriedDates(items[ev.result[i].id]) : ~TwoDaysOverdue(d)

\* the limit cuts the list, and the entry that stays is the later page of the
\* store, a day overdue
C32_Witness ==
    /\ DeadlinesAsked
    /\ ev.limit = 1
    /\ Len(ev.result) = 1
    /\ ev.result[1].id = 2
    /\ ev.result[1].days_left = -1
    /\ CarriedDates(items[1]) # {}
    /\ \E d \in CarriedDates(items[1]) : ~TwoDaysOverdue(d)

\* ---------------------------------------------------------------- C38
\* the list was fetched and the limit cuts nothing
DeadlinesUncut == DeadlinesAsked /\ ev.ok /\ ev.limit >= Len(items)

\* the page is active and exactly one of its date properties carries a date,
\* which is not more than a day overdue; the others are missing or empty
OneDateCarried(i) ==
    /\ ~items[i].archived
    /\ IsActiveStatus(items[i])
    /\ Cardinality(CarriedDates(items[i])) = 1
    /\ \A d \in CarriedDates(items[i]) : DaysLeft(d, ev.hour) >= -1

ResultIds == { ev.result[k].id : k \in DOMAIN ev.result }

\* C38: an active item is considered by upcomingDeadlines whenever any one of
\* its Date, Due Date or Deadline fields carries a date, even when another of
\* those fields is present on the item but empty.
C38_AnyDateFieldConsidered ==
    DeadlinesUncut =>
        \A i \in DOMAIN items : OneDateCarried(i) => i \in ResultIds

\* what the lookup does: the first property the page has decides, with or
\* without a date in it
C38_FirstPresentFieldDecides ==
    DeadlinesUncut =>
        \A i \in DOMAIN items :
            i \in ResultIds <=>
                /\ ~items[i].archived
                /\ IsActiveStatus(items[i])
                /\ DateProp(items[i]).kind \in { "day", "time" }
                /\ DaysLeft(DateProp(items[i]), ev.hour) >= -1

\* ---------------------------------------------------------------- C33
\* the store answered a call of get_completed_today, and no page was edited
\* after the moment of asking
CompletedAsked ==
    /\ ev.kind = "call" /\ ev.handler = "get_completed_today" /\ ev.ok
    /\ \A i \in DOMAIN items :
          items[i].last_edited_time <= today * HoursPerDay + ev.hour - ev.tz

\* the date in UTC at the moment of asking
UtcDate == (today * HoursPerDay + ev.hour - ev.tz) \div HoursPerDay

\* the pages with status Done or Completed that were edited on date
DoneEditedOn(date) ==
    { i \in DOMAIN items :
        /\ ~items[i].archived
        /\ items[i].status \in { STATUS_DONE, STATUS_COMPLETED }
        /\ items[i].last_edited_time \div HoursPerDay = date }

\* C33: completedToday returns exactly the items with status Done (or
\* Completed) whose last-modification timestamp, which the store reports in
\* UTC, falls on the current UTC date.
C33_CompletedOnUtcDate ==
    CompletedAsked => Range(ev.result) = DoneEditedOn(UtcDate)

\* what the function does: the date compared is the one of the process's
\* own clock, which is the UTC date only on a machine that runs in UTC
C33_CompletedOnLocalDate ==
    CompletedAsked =>
        /\ Range(ev.result) = DoneEditedOn(today)
        /\ ev.tz = 0 => Range(ev.result) = DoneEditedOn(UtcDate)

\* ---------------------------------------------------------------- C40
\* an Item was created for the utterance in hand
ItemCreated == SucceededTo({"add_to_life_areas"}) # <<>>

\* a Brain Dump entry was written for it
BrainDumpWritten ==
    SucceededTo({"add_to_brain_dump", "add_to_brain_dump_with_file"}) # <<>>

\* C40: no single text utterance results in both an Item being created for
\* it and a Brain Dump entry being written for it: the manual-triage fallback
\* is written only when no Item was created, also when sending the reply
\* fails after the store write.
C40_ItemOrBrainDumpNotBoth ==
    (ev.handler = "handle_text" /\ Handled) => ~(ItemCreated /\ BrainDumpWritten)

\* as long as the confirmation of the new Item is delivered, the fallback is
\* not written
C40_NotBothWhenConfirmed ==
    (ev.handler = "handle_text" /\ Handled /\ ItemCreated /\ Replied("added")) =>
        ~BrainDumpWritten

\* ---------------------------------------------------------------- C37
FocusCancelled == ev.kind # "none" /\ ev.handler = "focus_cancel"

\* C37: cancelling focus removes the user's FocusSession and backlog, tells
\* the user how many queued texts were discarded, and creates no Item,
\* changes no item's status and awards no XP.
C37_CancelDiscardsAndChangesNothing ==
    FocusCancelled =>
        /\ ev.user \notin DOMAIN focus_sessions
        /\ ev.user \notin DOMAIN focus_pending
        /\ ev.backlogBefore # <<>> =>
              /\ Replied("focus_ended_discarded")
              /\ ev.obs.discarded = { Len(ev.backlogBefore) }
        /\ ev.backlogBefore = <<>> => ev.obs.discarded = {}
        /\ items = ev.itemsBefore
        /\ CallsTo(STORE_WRITES \cup {"add_xp"}) = <<>>
        /\ user_xp[ev.user].xp = ev.xpBefore
        /\ user_xp[ev.user].streak = ev.streakBefore

\* a session with a queued text is cancelled
C37_Witness ==
    /\ FocusCancelled
    /\ ev.sessionBefore # {}
    /\ ev.backlogBefore # <<>>
    /\ ev.convBefore = "active"

\* ---------------------------------------------------------------- C39
\* C39: in every reachable state a user has a non-empty focus backlog only
\* while that user has a FocusSession: no sequence of focus start, selection,
\* queueing, completion and cancel events leaves queued text behind without a
\* session.
C39_BacklogOnlyWithSession ==
    \A u \in Everyone :
        Get(focus_pending, u, <<>>) # <<>> => u \in DOMAIN focus_sessions

\* as long as every reply of focus_complete is delivered, a completion ends
\* the conversation and the invariant holds
C39_HoldsWhileRepliesDelivered ==
    (\A u \in Everyone : conv[u] = "active" => u \in DOMAIN focus_sessions)
        => C39_BacklogOnlyWithSession

\* ---------------------------------------------------------------- C34
\* C34: under any interleaving of overlapping events for the same user no XP
\* award is lost: the user's totalXp always equals the sum of the amounts and
\* streak bonuses granted by the award calls that have completed.
C34_NoAwardLost ==
    \A u \in Everyone : user_xp[u].xp = OverlapXp[u].xp + audit.granted[u]

\* a handler has awarded after another handler of the same user had changed
\* the total while it was suspended, and both awards carried the bonus
C34_Witness ==
    \E u \in Everyone :
       /\ audit.overtaken[u] >= 1
       /\ audit.granted[u] >= 2 * (XP_TASK_ADDED + 50)


\* ---------------------------------------------------------------- C35
\* what the program holds for one user: the pending confirmation, the focus
\* session, the backlog, the XP record and the rate-limit history
HeldFor(u) ==
    << IF u \in DOMAIN pending_deletes THEN { pending_deletes[u] } ELSE {},
       IF u \in DOMAIN focus_sessions THEN { focus_sessions[u] } ELSE {},
       Get(focus_pending, u, <<>>),
       user_xp[u],
       request_history[u] >>

\* C35: a step of the handler of one user's event, whatever handlers of other
\* users are suspended around it, leaves every other user's pending
\* confirmation, focus session, backlog, XP record and rate-limit history as
\* they were.
C35_NoCrossUserEffect ==
    [][\A u \in Everyone : u # audit'.actor => HeldFor(u)' = HeldFor(u)]_vars

\* a handler of u3 has written u3's rate-limit history and XP record while
\* a handler of u1 was suspended in the middle of its replay, and u1 still
\* holds what its own handler left
C35_Witness ==
    /\ audit.actor = "u3"
    /\ request_history["u3"] # <<>>
    /\ audit.granted["u3"] > 0
    /\ \E i \in DOMAIN flight :
          /\ flight[i].user = "u1"
          /\ flight[i].pc = "categorize"
    /\ user_xp["u1"].xp = XP_FOCUS_COMPLETED


\* ---------------------------------------------------------------- C36
ReplayedInOrder(u) ==
    /\ Len(audit.replayed[u]) <= Len(audit.popped[u])
    /\ audit.replayed[u] = SubSeq(audit.popped[u], 1, Len(audit.replayed[u]))

\* C36: when a completion phrase is sent again while the first completion of
\* the session is being handled, the focused page is marked Done at most once
\* and the focus XP is awarded at most once, and once the completion is over
\* every text the session had queued has been replayed, one by one, in the
\* order in which it was queued.
C36_CompletionTakesEffectOnce ==
    \A u \in Everyone :
       /\ audit.marked[u] <= 1
       /\ audit.focus_awards[u] <= 1
       /\ ReplayedInOrder(u)
       /\ audit.completed[u] /\ audit.refused[u] >= 1 =>
             audit.replayed[u] = audit.popped[u]

\* the part that holds under every interleaving: one Done, one focus award,
\* and no queued text replayed twice or out of its turn
C36_AtMostOnceAndInOrder ==
    \A u \in Everyone :
       /\ audit.marked[u] <= 1
       /\ audit.focus_awards[u] <= 1
       /\ ReplayedInOrder(u)

\* a duplicate was refused and the first completion, its replies delivered,
\* has replayed both queued texts
C36_ReplayedInFull ==
    /\ audit.refused["u1"] >= 1
    /\ audit.completed["u1"]
    /\ Len(audit.popped["u1"]) = 2
    /\ audit.replayed["u1"] = audit.popped["u1"]

====
